---- MODULE Spec2Model ----
(***************************************************************************)
(* A model of the moodlebot services: the ingestion pipeline               *)
(* (OpenAIService.processKnowledgeBase over PineconeService.upsertVectors),*)
(* the chat entry point (getCompletion, getRelevantContext,                *)
(* handleEvaluationMode over generateNextQuestion) and the chunker         *)
(* (chunkText).                                                            *)
(***************************************************************************)
EXTENDS Integers, Sequences, FiniteSets, TLC

VARIABLES
    \* ---- ingestion (services/openai.ts, services/pinecone.ts) ----
    uploads,            \* knowledge bases still to be uploaded, as chunk counts
    knowledgeBase,      \* this.knowledgeBase: [gen, n, isLoaded, textContent], gen 0 = null
    phase,              \* position of processKnowledgeBase: idle, main, retry, done
    i,                  \* loop index of the main loop / of the retry replay
    currentBatchSize,
    successfulUpserts,
    failedBatches,
    retryQueue,         \* sequence of chunk ranges [lo, hi), concatenated
    store,              \* the vector-store namespace: id ranges with the run that wrote them
    mainAttempts,       \* history: batch attempts of the main loop in this run
    retryFailures,      \* history: failed batches of the retry replay in this run
    maxFailedBatches,   \* history: largest value failedBatches took in this run
    lastError,          \* history: what the last batch attempt threw, "none" when it succeeded
    \* ---- chat (services/openai.ts, utils/aiReadinessEvaluation.ts) ----
    apiKey,             \* this.apiKey: [sk, len] (starts with 'sk-', length)
    pineconeReady,      \* pineconeService.isInitialized
    isEvaluationMode,
    evaluationState,    \* [inProgress, currentTopicId, answers]
    turn,               \* the last getCompletion call: its position, local variables, history
    reply,              \* what the last finished getCompletion call returned
    calls,              \* external services the last getCompletion call has invoked
    queryMatches,       \* what the vector store answers to a query: its matches
    relevantContext,    \* what getRelevantContext returned in the last call
    asked,              \* history: dimension of the question the user has in front of them
    answersGiven,       \* history: questions of this interview the user has answered
    \* ---- chunker (utils/textProcessing.ts) ----
    inputText,          \* the argument text of chunkText
    chunkSize,          \* the argument chunkSize
    chunks,             \* what chunkText returned
    chunkPc,            \* idle, input (arguments chosen), done (chunkText returned)
    vec1,               \* the argument vec1 of calculateSimilarity
    vec2,               \* the argument vec2 of calculateSimilarity
    similarity,         \* what calculateSimilarity(vec1, vec2) returned
    selfSimilarity,     \* what calculateSimilarity(vec1, vec1) returned
    simPc,              \* idle, input (arguments chosen), done
    \* ---- readiness scoring (utils/aiReadinessEvaluation.ts) ----
    scoredAnswers,      \* the argument answers of evaluateReadinessLevel
    readinessLevel,     \* what evaluateReadinessLevel returned
    scoresReturned,     \* what calculateDimensionScores returned to it, doubled
    scorePc,            \* idle, input (arguments chosen), done
    givenAnswers,       \* the context.previousAnswers given to generateNextQuestion
    nextDimension,      \* the dimension it asked about, None when it returned null
    questionPc,         \* idle, input (arguments chosen), done
    sections,           \* the dimensions generateBasicRecommendations wrote a section for
    recPc,              \* idle, input (arguments chosen), done
    \* ---- chat surface (hooks/useChat, components/ChatInterface.tsx) ----
    loading,            \* useChat: the state loading
    renderedLoading,    \* ChatInterface: the prop loading of the last render
    input,              \* ChatInterface: the state input, a sequence of characters
    hookApiKey,         \* useChat: the state apiKey
    messages,           \* useChat: the roles of the messages shown, in order
    outstanding,        \* openAIService.getCompletion calls that have not returned
    refused,            \* history: a submission was refused since the last call started
    \* ---- vector-store query (services/openai.ts, services/pinecone.ts) ----
    queryText,          \* the argument query of getRelevantContext, a sequence of pieces
    queryRequest,       \* what queryVectors handed to index.query: [topK, filter]
    queryPc,            \* idle, input (argument chosen), done
    \* ---- ingestion, further (services/openai.ts, hooks/useChat) ----
    runs,               \* processKnowledgeBase calls started without waiting for one another
    csvData,            \* the argument csvData of processCSVData
    processed,          \* what processCSVData returned
    csvPc               \* idle, input (argument chosen), done

ingestVars == <<uploads, phase, i, currentBatchSize, successfulUpserts,
                failedBatches, retryQueue, store, mainAttempts, retryFailures,
                maxFailedBatches, lastError>>

chatVars == <<apiKey, pineconeReady, isEvaluationMode, evaluationState, turn, reply, calls,
              queryMatches, relevantContext, asked, answersGiven>>

chunkVars == <<inputText, chunkSize, chunks, chunkPc,
               vec1, vec2, similarity, selfSimilarity, simPc>>

scoreVars == <<scoredAnswers, readinessLevel, scoresReturned, scorePc,
               givenAnswers, nextDimension, questionPc, sections, recPc>>

uiVars == <<loading, renderedLoading, input, hookApiKey, messages, outstanding, refused>>

queryVars == <<queryText, queryRequest, queryPc>>

auxVars == <<runs, csvData, processed, csvPc>>

vars == <<knowledgeBase, ingestVars, chatVars, chunkVars, scoreVars, queryVars, auxVars, uiVars>>

\* What the actions of the ingestion leave alone, and those of the chat.
nonIngestVars == <<chatVars, chunkVars, scoreVars, queryVars, auxVars, uiVars>>

nonChatVars == <<knowledgeBase, ingestVars, chunkVars, scoreVars, queryVars, auxVars, uiVars>>

Min(a, b) == IF a < b THEN a ELSE b

Max(a, b) == IF a > b THEN a ELSE b

(***************************************************************************)
(* Bounds of the exploration.                                              *)
(***************************************************************************)
MaxMainAttempts == 9

MaxRetryFailures == 1

\* The upload sequences explored: chunk counts of the knowledge bases set one
\* after the other.
UploadPlans == {<<0>>, <<1>>, <<51>>, <<120>>, <<1001>>, <<2001>>, <<120, 51>>, <<51, 120>>}

(***************************************************************************)
(* Program constants.                                                      *)
(***************************************************************************)
InitialBatchSize == 1000

MinBatchSize == 50

RetryBatchSize == 50

FailureThreshold == 2

UpsertSubBatchSize == 100

(***************************************************************************)
(* Texts are modelled by a name and a length; NoText is '' (an undefined   *)
(* textContent reads as '' wherever the code uses it).                     *)
(***************************************************************************)
NoText == [name |-> "", len |-> 0]

\* this.knowledgeBase before the first setKnowledgeBase.
NullKnowledgeBase == [gen |-> 0, n |-> 0, isLoaded |-> FALSE, textContent |-> NoText]

\* The knowledge base of the gen-th upload: csvData of rows records (one chunk
\* per record) and no textContent.
CsvKnowledgeBase(gen, rows) ==
    [gen |-> gen, n |-> rows, isLoaded |-> TRUE, textContent |-> NoText]

(***************************************************************************)
(* The vector store: a set of id ranges [kind, lo, hi, gen], kind "doc" or *)
(* "retry"; ids kind-lo .. kind-(hi-1) hold vectors written by run gen.    *)
(* An upsert overwrites the ids it writes and leaves every other id alone. *)
(***************************************************************************)
Pieces(r, lo, hi) ==
    {p \in {[r EXCEPT !.hi = Min(r.hi, lo)], [r EXCEPT !.lo = Max(r.lo, hi)]} : p.lo < p.hi}

Upsert(st, kind, lo, hi, gen) ==
    IF lo >= hi THEN st
    ELSE {r \in st : r.kind # kind}
         \cup UNION {Pieces(r, lo, hi) : r \in {q \in st : q.kind = kind}}
         \cup {[kind |-> kind, lo |-> lo, hi |-> hi, gen |-> gen]}

NumSubBatches(len) == (len + UpsertSubBatchSize - 1) \div UpsertSubBatchSize

\* upsertVectors(vectors) for the ids kind-lo .. kind-(lo+len-1): sub-batches of
\* 100 are written in order; failAt = 0 is a call that succeeds, failAt = k a
\* call whose k-th sub-batch throws, the k-1 sub-batches before it persisted.
UpsertVectors(st, kind, lo, len, gen, failAt) ==
    IF failAt = 0 THEN Upsert(st, kind, lo, lo + len, gen)
    ELSE Upsert(st, kind, lo, Min(lo + len, lo + (failAt - 1) * UpsertSubBatchSize), gen)

\* What createEmbedding throws: the key check, or the provider's HTTP status.
EmbeddingErrors == {"keyNotSet", "invalidCredential", "malformedRequest", "rateLimit"}

\* What upsertVectors throws before its first sub-batch: checkInitialization.
InitializationErrors == {"notInitialized"}

\* The errors that no later attempt can cure: the configuration and the
\* provider's rejection of the credential or of the request.
PermanentErrors == {"keyNotSet", "notInitialized", "invalidCredential", "malformedRequest"}

\* A batch succeeds, fails before anything is written (an embedding request
\* or checkInitialization throws, or the first sub-batch is rejected), or
\* fails in its last sub-batch.
BatchOutcomes(len) ==
    {[ok |-> TRUE, failAt |-> 0, error |-> "none"]}
    \cup {[ok |-> FALSE, failAt |-> 1, error |-> e] :
             e \in EmbeddingErrors \cup InitializationErrors \cup {"storeError"}}
    \cup {[ok |-> FALSE, failAt |-> NumSubBatches(len), error |-> "storeError"]}

RECURSIVE QueueLength(_)
QueueLength(q) == IF q = <<>> THEN 0 ELSE (Head(q).hi - Head(q).lo) + QueueLength(Tail(q))

\* No ingestion run has started.
IngestIdle ==
    /\ phase = "idle"
    /\ i = 0
    /\ currentBatchSize = InitialBatchSize
    /\ successfulUpserts = 0
    /\ failedBatches = 0
    /\ retryQueue = <<>>
    /\ store = {}
    /\ mainAttempts = 0
    /\ retryFailures = 0
    /\ maxFailedBatches = 0
    /\ lastError = "none"

(***************************************************************************)
(* The chat service: getCompletion and what it calls.                      *)
(***************************************************************************)
None == "undefined"

maxContextLength == 8000

MinApiKeyLength == 40

TopK == 15

\* Bounds of the exploration.
MaxMatches == 2

MaxAnswers == 8

EmptyKey == [sk |-> FALSE, len |-> 0]

\* The credentials explored: '', a key without the prefix, a prefixed key that
\* is too short, and two well-formed keys.
ApiKeys ==
    {EmptyKey, [sk |-> FALSE, len |-> 51], [sk |-> TRUE, len |-> 39],
     [sk |-> TRUE, len |-> 40], [sk |-> TRUE, len |-> 51]}

\* The knowledge bases explored by the chat: none, one not marked loaded, one
\* without text, a short text and a text longer than maxContextLength.
ChatKnowledgeBases ==
    {NullKnowledgeBase,
     [gen |-> 1, n |-> 1, isLoaded |-> FALSE, textContent |-> [name |-> "kb", len |-> 100]],
     [gen |-> 1, n |-> 3, isLoaded |-> TRUE, textContent |-> NoText],
     [gen |-> 1, n |-> 1, isLoaded |-> TRUE, textContent |-> [name |-> "kb", len |-> 100]],
     [gen |-> 1, n |-> 12, isLoaded |-> TRUE, textContent |-> [name |-> "kb", len |-> 9000]]}

Prompts == {"we have implemented it", "not yet"}

\* The messages getCompletion returns instead of an answer.
MsgNoApiKey == "Please set your OpenAI API key in the settings."

MsgNoKnowledgeBase == "Please upload knowledge base files first."

MsgBadKeyFormat == "The API key format appears to be invalid."

MsgKeyIssue == "There seems to be an issue with your OpenAI API key."

MsgRateLimit == "The OpenAI API rate limit has been reached."

MsgInvalidKey == "Your OpenAI API key appears to be invalid or expired."

MsgNetwork == "Unable to connect to OpenAI."

MsgGeneric == "I encountered an error processing your request."

\* An error is modelled by the markers its message contains.
ErrorText(hasApiKey, has429, has401, hasFetch) ==
    [apiKey |-> hasApiKey, c429 |-> has429, c401 |-> has401, fetch |-> hasFetch]

\* throw new Error('OpenAI API key is not set')
ErrKeyNotSet == ErrorText(TRUE, FALSE, FALSE, FALSE)

\* throw new Error("Failed to generate initial evaluation question")
ErrNoInitialQuestion == ErrorText(FALSE, FALSE, FALSE, FALSE)

\* What createChatCompletion can throw: a 429, a 401 whose provider text names
\* the API key, a 401 whose text does not, a failed fetch, and anything else.
CompletionErrors ==
    {ErrorText(FALSE, TRUE, FALSE, FALSE), ErrorText(TRUE, FALSE, TRUE, FALSE),
     ErrorText(FALSE, FALSE, TRUE, FALSE), ErrorText(FALSE, FALSE, FALSE, TRUE),
     ErrorText(FALSE, FALSE, FALSE, FALSE)}

\* Every error that reaches the catch block of getCompletion.
RaisedErrors == CompletionErrors \cup {ErrKeyNotSet, ErrNoInitialQuestion}

\* The category of a failure: the status the provider reported, or a failed
\* fetch; "other" for every failure that is none of the three.
ErrorCategory(err) ==
    IF err.c429 THEN "rateLimit"
    ELSE IF err.c401 THEN "invalidCredential"
    ELSE IF err.fetch THEN "network"
    ELSE "other"

\* A catch block that returns the text of the error it caught.
MapError_Raw(err) == "raw provider error"

\* The catch block of getCompletion.
MapError(err) ==
    IF err.apiKey THEN MsgKeyIssue
    ELSE IF err.c429 THEN MsgRateLimit
    ELSE IF err.c401 THEN MsgInvalidKey
    ELSE IF err.fetch THEN MsgNetwork
    ELSE MsgGeneric

\* What getCompletion returns: its kind, the dimension a question is about, its
\* text, and the readiness level the text states (None when it states none).
Message(text) == [kind |-> "message", dim |-> None, text |-> text, level |-> None]

NoReply == [kind |-> "none", dim |-> None, text |-> "", level |-> None]

\* The question generateNextQuestion returns for dimension dim.
Question(dim, text) == [kind |-> "question", dim |-> dim, text |-> text, level |-> None]

\* return recommendations: the terminal message of handleEvaluationMode is the
\* text of generateRecommendations and nothing else; evaluateReadinessLevel is
\* imported and never called.
TerminalMessage(recommendations) ==
    [kind |-> "report", dim |-> None, text |-> recommendations, level |-> None]

\* return response.choices[0].message.content
Answer(content) == [kind |-> "answer", dim |-> None, text |-> content, level |-> None]

\* The format check of getCompletion with the length test dropped.
ApiKeyFormatValid_PrefixOnly(k) == k.sk

\* apiKey.startsWith('sk-') && apiKey.length >= 40
ApiKeyFormatValid(k) == k.sk /\ k.len >= MinApiKeyLength

(***************************************************************************)
(* The evaluation dimensions, in catalog order, and their importance.      *)
(***************************************************************************)
evaluationDimensions ==
    <<[id |-> "context", key |-> 3], [id |-> "data", key |-> 3],
      [id |-> "strategy", key |-> 3], [id |-> "talent", key |-> 2],
      [id |-> "technical", key |-> 2], [id |-> "governance", key |-> 2],
      [id |-> "experience", key |-> 1]>>

DimensionIds == {evaluationDimensions[k].id : k \in DOMAIN evaluationDimensions}

NumDimensions == Len(evaluationDimensions)

\* Array.prototype.sort((a, b) => b.key - a.key): stable, descending by key.
RECURSIVE InsertDesc(_, _)
InsertDesc(x, sorted) ==
    IF sorted = <<>> THEN <<x>>
    ELSE IF Head(sorted).key >= x.key THEN <<Head(sorted)>> \o InsertDesc(x, Tail(sorted))
    ELSE <<x>> \o sorted

RECURSIVE SortDesc(_)
SortDesc(seq) ==
    IF seq = <<>> THEN <<>>
    ELSE InsertDesc(seq[Len(seq)], SortDesc(SubSeq(seq, 1, Len(seq) - 1)))

\* Object.values(readinessLevels)
readinessLevels == {"Exploring", "Developing", "Established", "Advanced"}

\* A reset that leaves the answer to the first question behind.
EmptyAnswers_KeepsFirst == [d \in {"context"} |-> "not yet"]

\* answers: {}
EmptyAnswers == <<>>

\* answers[dim] = text
Put(answers, dim, text) ==
    [d \in (DOMAIN answers) \cup {dim} |-> IF d = dim THEN text ELSE answers[d]]

\* evaluationState.currentTopicId with the context object aliased to the
\* state, so that the assignment of generateNextQuestion reaches it.
StateTopicId_Aliased(stateTopicId, ctxTopicId) == ctxTopicId

\* evaluationState.currentTopicId after generateNextQuestion has assigned
\* context.currentTopicId: the context is a fresh object literal that copies
\* the value, so the state keeps the value it had.
StateTopicId(stateTopicId, ctxTopicId) == stateTopicId

IdleEvaluation == [inProgress |-> FALSE, currentTopicId |-> None, answers |-> EmptyAnswers]

\* The catch block of handleEvaluationMode with the reset left out.
EvaluationCatch_NoReset(es) == es

\* The catch block of handleEvaluationMode: evaluationState = { inProgress:
\* false, answers: {} } before the error is thrown on to getCompletion.
EvaluationCatch(es) == IdleEvaluation

\* generateNextQuestion taking the last of the sorted remaining dimensions.
NextDimension_LowestFirst(previousAnswers) ==
    LET askedDimensions == DOMAIN previousAnswers
        IsRemaining(d) == d.id \notin askedDimensions
        remainingDimensions == SortDesc(SelectSeq(evaluationDimensions, IsRemaining))
    IN IF Cardinality(askedDimensions) >= NumDimensions THEN None
       ELSE IF remainingDimensions = <<>> THEN None
       ELSE remainingDimensions[Len(remainingDimensions)].id

\* generateNextQuestion without the filter on the dimensions already asked.
NextDimension_IgnoresAnswers(previousAnswers) ==
    LET askedDimensions == DOMAIN previousAnswers
    IN IF Cardinality(askedDimensions) >= NumDimensions THEN None
       ELSE SortDesc(evaluationDimensions)[1].id

\* The dimension generateNextQuestion asks about next, None when it returns
\* null before calling the completion service.
NextDimension(previousAnswers) ==
    LET askedDimensions == DOMAIN previousAnswers
        IsRemaining(d) == d.id \notin askedDimensions
        remainingDimensions == SortDesc(SelectSeq(evaluationDimensions, IsRemaining))
    IN IF Cardinality(askedDimensions) >= NumDimensions THEN None
       ELSE IF remainingDimensions = <<>> THEN None
       ELSE remainingDimensions[1].id

(***************************************************************************)
(* getRelevantContext: the matches of the vector-store query, a sequence   *)
(* of [len, groupKey, key] (text length, metadata.groupKey, score), are    *)
(* sorted, grouped and joined; the result is cut to maxContextLength.      *)
(***************************************************************************)
MatchChoices ==
    {[len |-> l, groupKey |-> g, key |-> sc] :
        l \in {10, 7983, 7984},
        g \in {"General Content", "Module 1 Week 2", None},
        sc \in {1, 2}}

RECURSIVE MatchListsOfLength(_)
MatchListsOfLength(k) ==
    IF k = 0 THEN {<<>>}
    ELSE {Append(ms, m) : ms \in MatchListsOfLength(k - 1), m \in MatchChoices}

MatchLists == UNION {MatchListsOfLength(k) : k \in 0..MaxMatches}

\* The two answers of the vector store the chat is explored with: one match,
\* and two matches that together exceed maxContextLength.
ChatQueryMatches ==
    {<<[len |-> 10, groupKey |-> "General Content", key |-> 2]>>,
     <<[len |-> 7983, groupKey |-> "Module 1 Week 2", key |-> 1],
       [len |-> 10, groupKey |-> None, key |-> 2]>>}

\* result.metadata?.groupKey || 'General Content'
GroupKeyOf(m) == IF m.groupKey = None THEN "General Content" ELSE m.groupKey

\* Both group keys explored have 15 characters.
GroupKeyLength(g) == 15

\* "\n\n===================\n\n"
GroupSeparatorLength == 23

\* The keys of groupedResults, in insertion order.
RECURSIVE GroupKeys(_)
GroupKeys(results) ==
    IF results = <<>> THEN <<>>
    ELSE LET before == GroupKeys(SubSeq(results, 1, Len(results) - 1))
             g == GroupKeyOf(results[Len(results)])
         IN IF \E k \in DOMAIN before : before[k] = g THEN before ELSE Append(before, g)

RECURSIVE SumLen(_)
SumLen(results) == IF results = <<>> THEN 0 ELSE Head(results).len + SumLen(Tail(results))

\* `${group}:\n${texts.join('\n\n')}`
GroupTextLength(g, results) ==
    LET InGroup(m) == GroupKeyOf(m) = g
        texts == SelectSeq(results, InGroup)
    IN GroupKeyLength(g) + 2 + SumLen(texts) + 2 * (Len(texts) - 1)

RECURSIVE JoinedLength(_, _)
JoinedLength(groups, results) ==
    IF groups = <<>> THEN 0
    ELSE GroupTextLength(Head(groups), results)
         + (IF Len(groups) > 1 THEN GroupSeparatorLength ELSE 0)
         + JoinedLength(Tail(groups), results)

\* truncateContext(text, maxLength), also written out in getRelevantContext.
truncateContext(text, maxLength) ==
    IF text.len <= maxLength THEN text
    ELSE [name |-> text.name \o "...", len |-> maxLength + 3]

\* The try block of getRelevantContext, given the matches of the query.
AssembleContext(matches) ==
    LET results == SortDesc(matches)
        context == [name |-> "context", len |-> JoinedLength(GroupKeys(results), results)]
    IN truncateContext(context, maxContextLength)

\* The fallback cut like the assembled context.
FallbackContext_Truncated(kb) == truncateContext(kb.textContent, maxContextLength)

\* The catch block of getRelevantContext: this.knowledgeBase?.textContent || ''
FallbackContext(kb) == kb.textContent

(***************************************************************************)
(* The call in flight.                                                     *)
(***************************************************************************)
IdleTurn ==
    [pc |-> "idle", prompt |-> "", branch |-> "none", dim |-> None, ctxTopicId |-> None,
     answering |-> None, keyAtCall |-> EmptyKey, loadedAtCall |-> FALSE,
     contextFailed |-> FALSE, toggled |-> FALSE, raised |-> {}]

\* chunkText is not being explored.
ChunkIdle ==
    /\ inputText = <<>>
    /\ chunkSize = 0
    /\ chunks = <<>>
    /\ chunkPc = "idle"
    /\ vec1 = <<>>
    /\ vec2 = <<>>
    /\ similarity = 0
    /\ selfSimilarity = 0
    /\ simPc = "idle"

\* Neither overlapping ingestion runs nor processCSVData are being explored.
AuxIdle ==
    /\ runs = <<>>
    /\ csvData = <<>>
    /\ processed = <<>>
    /\ csvPc = "idle"

\* No query has been built.
NoRequest == [topK |-> 0, filter |-> [and |-> <<>>]]

\* The building of the vector-store query is not being explored.
QueryIdle ==
    /\ queryText = <<>>
    /\ queryRequest = NoRequest
    /\ queryPc = "idle"

\* The chat surface is not being explored.
UiIdle ==
    /\ loading = FALSE
    /\ renderedLoading = FALSE
    /\ input = <<>>
    /\ hookApiKey = EmptyKey
    /\ messages = <<>>
    /\ outstanding = 0
    /\ refused = FALSE

\* generateNextQuestion is not being explored on its own.
QuestionIdle ==
    /\ givenAnswers = <<>>
    /\ nextDimension = None
    /\ questionPc = "idle"

\* evaluateReadinessLevel is not being explored.
ScoreIdle ==
    /\ scoredAnswers = <<>>
    /\ readinessLevel = ""
    /\ scoresReturned = <<>>
    /\ scorePc = "idle"
    /\ sections = {}
    /\ recPc = "idle"
    /\ QuestionIdle

ChatIdle ==
    /\ apiKey = EmptyKey
    /\ pineconeReady = FALSE
    /\ isEvaluationMode = FALSE
    /\ evaluationState = IdleEvaluation
    /\ turn = IdleTurn
    /\ reply = NoReply
    /\ calls = {}
    /\ queryMatches = <<>>
    /\ relevantContext = NoText
    /\ asked = None
    /\ answersGiven = 0

SetApiKey ==
    /\ \E k \in ApiKeys : apiKey' = k
    /\ UNCHANGED <<nonChatVars, pineconeReady, isEvaluationMode, evaluationState,
                   turn, reply, calls, queryMatches, relevantContext, asked, answersGiven>>

ToggleEvaluationMode ==
    /\ \E enabled \in BOOLEAN :
        /\ isEvaluationMode' = enabled
        /\ evaluationState' =
             IF enabled
             THEN [inProgress |-> TRUE, currentTopicId |-> None, answers |-> EmptyAnswers]
             ELSE [evaluationState EXCEPT !.inProgress = FALSE]
    /\ turn' = [turn EXCEPT !.toggled = TRUE]
    /\ asked' = None
    /\ answersGiven' = 0
    /\ UNCHANGED <<nonChatVars, apiKey, pineconeReady, reply, calls,
                   queryMatches, relevantContext>>

\* The start of a call: the local variables of the call and its history.
NewTurn(prompt) ==
    [IdleTurn EXCEPT !.prompt = prompt, !.keyAtCall = apiKey,
                     !.loadedAtCall = knowledgeBase.isLoaded]

\* handleEvaluationMode up to its first await.
HandleEvaluationModeStart(prompt) ==
    LET initial == ~evaluationState.inProgress
        stored ==
            IF initial THEN [evaluationState EXCEPT !.inProgress = TRUE]
            ELSE IF evaluationState.currentTopicId # None
            THEN [evaluationState EXCEPT
                    !.answers = Put(evaluationState.answers, evaluationState.currentTopicId, prompt)]
            ELSE evaluationState
        dim == NextDimension(stored.answers)
        t == [NewTurn(prompt) EXCEPT !.branch = IF initial THEN "initial" ELSE "next",
                                     !.dim = dim,
                                     !.ctxTopicId = evaluationState.currentTopicId,
                                     !.answering = asked]
    IN /\ asked # None => answersGiven < MaxAnswers
       /\ answersGiven' = IF asked # None THEN answersGiven + 1 ELSE 0
       /\ IF dim # None
          THEN \* generateNextQuestion awaits createChatCompletion
               /\ evaluationState' = stored
               /\ turn' = [t EXCEPT !.pc = "awaitQuestion"]
               /\ calls' = {"completion"}
               /\ UNCHANGED <<reply, asked>>
          ELSE IF initial
          THEN \* "Failed to generate initial evaluation question"
               /\ evaluationState' = EvaluationCatch(stored)
               /\ turn' = [t EXCEPT !.raised = {ErrNoInitialQuestion}]
               /\ calls' = {}
               /\ reply' = Message(MapError(ErrNoInitialQuestion))
               /\ asked' = None
          ELSE \* generateRecommendations awaits createChatCompletion
               /\ evaluationState' = stored
               /\ turn' = [t EXCEPT !.pc = "awaitRecommendations"]
               /\ calls' = {"completion"}
               /\ UNCHANGED <<reply, asked>>
       /\ relevantContext' = NoText

\* Normal mode up to its first await.
NormalModeStart(prompt) ==
    /\ IF pineconeReady
       THEN \* queryVectors awaits createEmbedding
            /\ turn' = [NewTurn(prompt) EXCEPT !.pc = "awaitContext"]
            /\ calls' = {"embedding"}
            /\ relevantContext' = NoText
       ELSE \* checkInitialization throws; the fallback context goes to createChatCompletion
            /\ turn' = [NewTurn(prompt) EXCEPT !.pc = "awaitCompletion", !.contextFailed = TRUE]
            /\ calls' = {"completion"}
            /\ relevantContext' = FallbackContext(knowledgeBase)
    /\ UNCHANGED <<reply, evaluationState, asked, answersGiven>>

\* A call that returns a message before it does anything else.
Rejected(prompt, text) ==
    /\ turn' = NewTurn(prompt)
    /\ reply' = Message(text)
    /\ calls' = {}
    /\ relevantContext' = NoText
    /\ UNCHANGED <<evaluationState, asked, answersGiven>>

GetCompletion ==
    /\ turn.pc = "idle"
    /\ \E prompt \in Prompts :
        IF apiKey.len = 0 THEN Rejected(prompt, MsgNoApiKey)
        ELSE IF ~knowledgeBase.isLoaded THEN Rejected(prompt, MsgNoKnowledgeBase)
        ELSE IF ~ApiKeyFormatValid(apiKey) THEN Rejected(prompt, MsgBadKeyFormat)
        ELSE IF isEvaluationMode THEN HandleEvaluationModeStart(prompt)
        ELSE NormalModeStart(prompt)
    /\ UNCHANGED <<nonChatVars, apiKey, pineconeReady, isEvaluationMode,
                   queryMatches>>

\* The completion call of generateNextQuestion returns.
QuestionCompletes ==
    /\ turn.pc = "awaitQuestion"
    /\ \E out \in {"text", "empty", "fail"} :
        LET question ==
                IF out = "fail" THEN Question(turn.dim, "fallback")
                ELSE IF out = "text" THEN Question(turn.dim, "llm")
                ELSE Question(turn.dim, "")
            \* context.currentTopicId = nextDimension.id, on the local context object
            topic == IF out = "fail" THEN turn.ctxTopicId ELSE turn.dim
            t == [turn EXCEPT !.ctxTopicId = topic]
        IN IF question.text # ""
           THEN /\ reply' = question
                /\ turn' = [t EXCEPT !.pc = "idle"]
                /\ asked' = turn.dim
                /\ evaluationState' =
                     [evaluationState EXCEPT !.currentTopicId = StateTopicId(@, topic)]
                /\ UNCHANGED calls
           ELSE IF turn.branch = "initial"
           THEN \* "Failed to generate initial evaluation question"
                /\ reply' = Message(MapError(ErrNoInitialQuestion))
                /\ turn' = [t EXCEPT !.pc = "idle", !.raised = {ErrNoInitialQuestion}]
                /\ evaluationState' = EvaluationCatch(evaluationState)
                /\ asked' = None
                /\ UNCHANGED calls
           ELSE IF apiKey.len = 0
           THEN \* createChatCompletion throws; generateRecommendations falls back
                /\ reply' = TerminalMessage("basic")
                /\ turn' = [t EXCEPT !.pc = "idle"]
                /\ evaluationState' = IdleEvaluation
                /\ asked' = None
                /\ UNCHANGED calls
           ELSE /\ turn' = [t EXCEPT !.pc = "awaitRecommendations"]
                /\ calls' = calls \cup {"completion"}
                /\ UNCHANGED <<reply, evaluationState, asked>>
    /\ UNCHANGED <<nonChatVars, apiKey, pineconeReady, isEvaluationMode,
                   queryMatches, relevantContext, answersGiven>>

\* The completion call of generateRecommendations returns.
RecommendationsComplete ==
    /\ turn.pc = "awaitRecommendations"
    /\ \E out \in {"llm", "basic"} : reply' = TerminalMessage(out)
    /\ turn' = [turn EXCEPT !.pc = "idle"]
    /\ evaluationState' = IdleEvaluation
    /\ asked' = None
    /\ UNCHANGED <<nonChatVars, apiKey, pineconeReady, isEvaluationMode, calls,
                   queryMatches, relevantContext, answersGiven>>

\* createChatCompletion of normal mode, called with the context in hand.
CallCompletion(t) ==
    IF apiKey.len = 0
    THEN /\ reply' = Message(MapError(ErrKeyNotSet))
         /\ turn' = [t EXCEPT !.pc = "idle", !.raised = {ErrKeyNotSet}]
    ELSE /\ turn' = [t EXCEPT !.pc = "awaitCompletion"]
         /\ UNCHANGED reply

\* queryVectors returns or throws.
ContextCompletes ==
    /\ turn.pc = "awaitContext"
    /\ \/ \* createEmbedding throws
          /\ relevantContext' = FallbackContext(knowledgeBase)
          /\ CallCompletion([turn EXCEPT !.contextFailed = TRUE])
          /\ calls' = IF apiKey.len = 0 THEN calls ELSE calls \cup {"completion"}
       \/ \* the vector-store query throws
          /\ relevantContext' = FallbackContext(knowledgeBase)
          /\ CallCompletion([turn EXCEPT !.contextFailed = TRUE])
          /\ calls' = calls \cup {"vectorStore"}
                      \cup (IF apiKey.len = 0 THEN {} ELSE {"completion"})
       \/ \* the query returns its matches, at most topK of them
          /\ relevantContext' = AssembleContext(SubSeq(queryMatches, 1, Min(TopK, Len(queryMatches))))
          /\ CallCompletion(turn)
          /\ calls' = calls \cup {"vectorStore"}
                      \cup (IF apiKey.len = 0 THEN {} ELSE {"completion"})
    /\ UNCHANGED <<nonChatVars, apiKey, pineconeReady, isEvaluationMode,
                   evaluationState, queryMatches, asked, answersGiven>>

\* createChatCompletion of normal mode returns or throws.
CompletionCompletes ==
    /\ turn.pc = "awaitCompletion"
    /\ \/ /\ reply' = Answer("llm")
          /\ turn' = [turn EXCEPT !.pc = "idle"]
       \/ \E err \in CompletionErrors :
            /\ reply' = Message(MapError(err))
            /\ turn' = [turn EXCEPT !.pc = "idle", !.raised = {err}]
    /\ UNCHANGED <<nonChatVars, apiKey, pineconeReady, isEvaluationMode,
                   evaluationState, calls, queryMatches, relevantContext, asked, answersGiven>>

InitChat ==
    /\ knowledgeBase \in ChatKnowledgeBases
    /\ uploads = <<>>
    /\ IngestIdle
    /\ ChunkIdle
    /\ ScoreIdle
    /\ UiIdle
    /\ QueryIdle
    /\ AuxIdle
    /\ apiKey \in ApiKeys
    /\ pineconeReady \in BOOLEAN
    /\ isEvaluationMode = FALSE
    /\ evaluationState = IdleEvaluation
    /\ turn = IdleTurn
    /\ reply = NoReply
    /\ calls = {}
    /\ queryMatches \in ChatQueryMatches
    /\ relevantContext = NoText
    /\ asked = None
    /\ answersGiven = 0

NextChat ==
    \/ SetApiKey
    \/ ToggleEvaluationMode
    \/ GetCompletion
    \/ QuestionCompletes
    \/ RecommendationsComplete
    \/ ContextCompletes
    \/ CompletionCompletes

SpecChat == InitChat /\ [][NextChat]_vars

(***************************************************************************)
(* Retrieval on its own: normal-mode calls of a configured service, over   *)
(* every answer of the vector store up to MaxMatches matches.              *)
(***************************************************************************)
InitRetrieve ==
    /\ knowledgeBase \in {kb \in ChatKnowledgeBases : kb.isLoaded}
    /\ uploads = <<>>
    /\ IngestIdle
    /\ ChunkIdle
    /\ ScoreIdle
    /\ UiIdle
    /\ QueryIdle
    /\ AuxIdle
    /\ apiKey = [sk |-> TRUE, len |-> 51]
    /\ pineconeReady \in BOOLEAN
    /\ isEvaluationMode = FALSE
    /\ evaluationState = IdleEvaluation
    /\ turn = IdleTurn
    /\ reply = NoReply
    /\ calls = {}
    /\ queryMatches \in MatchLists
    /\ relevantContext = NoText
    /\ asked = None
    /\ answersGiven = 0

NextRetrieve ==
    \/ GetCompletion
    \/ ContextCompletes
    \/ CompletionCompletes

SpecRetrieve == InitRetrieve /\ [][NextRetrieve]_vars

(***************************************************************************)
(* setKnowledgeBase: replaces this.knowledgeBase and starts                *)
(* processKnowledgeBase. Runs are started one after the other here.        *)
(***************************************************************************)
SetKnowledgeBase ==
    /\ phase \in {"idle", "done"}
    /\ uploads # <<>>
    /\ knowledgeBase' = CsvKnowledgeBase(knowledgeBase.gen + 1, Head(uploads))
    /\ uploads' = Tail(uploads)
    /\ phase' = "main"
    /\ i' = 0
    /\ currentBatchSize' = InitialBatchSize
    /\ successfulUpserts' = 0
    /\ failedBatches' = 0
    /\ retryQueue' = <<>>
    /\ mainAttempts' = 0
    /\ retryFailures' = 0
    /\ maxFailedBatches' = 0
    /\ lastError' = "none"
    /\ UNCHANGED <<store, nonIngestVars>>

\* The catch block halving the batch size without the floor.
BatchSizeAfterFailure_NoFloor(size, f) ==
    IF f > FailureThreshold THEN size \div 2 ELSE size

\* The catch block halving the batch size on every failure.
BatchSizeAfterFailure_EveryFailure(size, f) == Max(MinBatchSize, size \div 2)

\* The size the catch block leaves after the failure that makes failedBatches = f.
BatchSizeAfterFailure(size, f) ==
    IF f > FailureThreshold THEN Max(MinBatchSize, size \div 2) ELSE size

\* IndexAfterFailure with the threshold off by one: the second consecutive
\* failure already re-attempts the batch it has queued.
IndexAfterFailure_OffByOne(idx, batchEndIndex, f) ==
    IF f >= FailureThreshold THEN idx ELSE batchEndIndex

\* The catch block moving one chunk past the failed batch.
IndexAfterFailure_SkipsAhead(idx, batchEndIndex, f) ==
    IF f > FailureThreshold THEN idx ELSE batchEndIndex + 1

\* The index the catch block leaves: the same batch again, or the next batch.
IndexAfterFailure(idx, batchEndIndex, f) ==
    IF f > FailureThreshold THEN idx ELSE batchEndIndex

\* One iteration of the main loop.
MainBatch ==
    /\ phase = "main"
    /\ i < knowledgeBase.n
    /\ mainAttempts < MaxMainAttempts
    /\ LET batchEndIndex == Min(i + currentBatchSize, knowledgeBase.n)
           len == batchEndIndex - i
       IN \E o \in BatchOutcomes(len) :
            /\ store' = UpsertVectors(store, "doc", i, len, knowledgeBase.gen, o.failAt)
            /\ lastError' = o.error
            /\ IF o.ok
               THEN /\ successfulUpserts' = successfulUpserts + len
                    /\ failedBatches' = 0
                    /\ i' = batchEndIndex
                    /\ UNCHANGED <<retryQueue, currentBatchSize>>
               ELSE /\ failedBatches' = failedBatches + 1
                    /\ retryQueue' = Append(retryQueue, [lo |-> i, hi |-> batchEndIndex])
                    /\ currentBatchSize' = BatchSizeAfterFailure(currentBatchSize, failedBatches')
                    /\ i' = IndexAfterFailure(i, batchEndIndex, failedBatches')
                    /\ UNCHANGED successfulUpserts
    /\ mainAttempts' = mainAttempts + 1
    /\ maxFailedBatches' = Max(maxFailedBatches, failedBatches')
    /\ UNCHANGED <<uploads, knowledgeBase, phase, retryFailures, nonIngestVars>>

\* The main loop ends; the retry replay starts when the queue is not empty.
MainExit ==
    /\ phase = "main"
    /\ i >= knowledgeBase.n
    /\ phase' = IF QueueLength(retryQueue) > 0 THEN "retry" ELSE "done"
    /\ i' = 0
    /\ UNCHANGED <<uploads, knowledgeBase, currentBatchSize, successfulUpserts, failedBatches,
                   retryQueue, store, mainAttempts, retryFailures, maxFailedBatches, lastError,
                   nonIngestVars>>

\* The replay giving up at its first failing batch.
RetryIndexAfter_StopOnFailure(idx, ok, queueLength) ==
    IF ok THEN idx + RetryBatchSize ELSE queueLength

\* The index of the replay loop after a batch: i += retryBatchSize, whether
\* the batch was upserted or its error was caught and logged.
RetryIndexAfter(idx, ok, queueLength) == idx + RetryBatchSize

\* One iteration of the retry replay.
RetryBatch ==
    /\ phase = "retry"
    /\ i < QueueLength(retryQueue)
    /\ LET len == Min(RetryBatchSize, QueueLength(retryQueue) - i)
       IN \E o \in BatchOutcomes(len) :
            /\ ~o.ok => retryFailures < MaxRetryFailures
            /\ store' = UpsertVectors(store, "retry", i, len, knowledgeBase.gen, o.failAt)
            /\ lastError' = o.error
            /\ successfulUpserts' = IF o.ok THEN successfulUpserts + len ELSE successfulUpserts
            /\ retryFailures' = IF o.ok THEN retryFailures ELSE retryFailures + 1
            /\ i' = RetryIndexAfter(i, o.ok, QueueLength(retryQueue))
    /\ UNCHANGED <<uploads, knowledgeBase, phase, currentBatchSize, failedBatches, retryQueue,
                   mainAttempts, maxFailedBatches, nonIngestVars>>

RetryExit ==
    /\ phase = "retry"
    /\ i >= QueueLength(retryQueue)
    /\ phase' = "done"
    /\ UNCHANGED <<uploads, knowledgeBase, i, currentBatchSize, successfulUpserts, failedBatches,
                   retryQueue, store, mainAttempts, retryFailures, maxFailedBatches, lastError,
                   nonIngestVars>>

InitIngest ==
    /\ uploads \in UploadPlans
    /\ knowledgeBase = NullKnowledgeBase
    /\ ChatIdle
    /\ ChunkIdle
    /\ ScoreIdle
    /\ UiIdle
    /\ QueryIdle
    /\ AuxIdle
    /\ phase = "idle"
    /\ i = 0
    /\ currentBatchSize = InitialBatchSize
    /\ successfulUpserts = 0
    /\ failedBatches = 0
    /\ retryQueue = <<>>
    /\ store = {}
    /\ mainAttempts = 0
    /\ retryFailures = 0
    /\ maxFailedBatches = 0
    /\ lastError = "none"

NextIngest ==
    \/ SetKnowledgeBase
    \/ MainBatch
    \/ MainExit
    \/ RetryBatch
    \/ RetryExit

SpecIngest == InitIngest /\ [][NextIngest]_vars

(***************************************************************************)
(* The chunker (utils/textProcessing.ts). A text is a sequence of          *)
(* characters; ' ' stands for the whitespace class \s and '.' for the      *)
(* sentence terminators [.!?].                                             *)
(***************************************************************************)
MaxTextLength == 6

MaxChunkSize == 3

Alphabet == {"a", "b", ".", " "}

Texts == UNION {[1..n -> Alphabet] : n \in 0..MaxTextLength}

IsSpace(c) == c = " "

IsTerminator(c) == c = "."

\* The first position from q on that holds no whitespace, Len(s) + 1 if none.
RECURSIVE SkipSpaces(_, _)
SkipSpaces(s, q) ==
    IF q > Len(s) \/ ~IsSpace(s[q]) THEN q ELSE SkipSpaces(s, q + 1)

\* String.prototype.split with /\s+/ (afterTerminator = FALSE) or with
\* /(?<=[.!?])\s+/ (afterTerminator = TRUE): p is where the current piece
\* starts, q the position the separator is tried at.
RECURSIVE SplitFrom(_, _, _, _)
SplitFrom(s, p, q, afterTerminator) ==
    IF q > Len(s) THEN <<SubSeq(s, p, Len(s))>>
    ELSE IF IsSpace(s[q]) /\ (~afterTerminator \/ (q > 1 /\ IsTerminator(s[q - 1])))
    THEN LET e == SkipSpaces(s, q)
         IN <<SubSeq(s, p, q - 1)>> \o SplitFrom(s, e, e, afterTerminator)
    ELSE SplitFrom(s, p, q + 1, afterTerminator)

Split(s, afterTerminator) == SplitFrom(s, 1, 1, afterTerminator)

\* String.prototype.trim
Trim(s) ==
    LET solid == {k \in DOMAIN s : ~IsSpace(s[k])}
    IN IF solid = {} THEN <<>>
       ELSE SubSeq(s, CHOOSE k \in solid : \A m \in solid : k <= m,
                      CHOOSE k \in solid : \A m \in solid : k >= m)

\* a + (a ? ' ' : '') + b
JoinWithSpace(a, b) == a \o (IF a # <<>> THEN <<" ">> ELSE <<>>) \o b

\* The loop over the words of a sentence longer than chunkSize.
RECURSIVE SplitLongSentence(_, _, _, _)
SplitLongSentence(out, currentPiece, words, size) ==
    IF words = <<>>
    THEN IF currentPiece # <<>> THEN Append(out, Trim(currentPiece)) ELSE out
    ELSE LET word == Head(words)
         IN IF Len(currentPiece) + 1 + Len(word) > size
            THEN SplitLongSentence(
                     IF currentPiece # <<>> THEN Append(out, Trim(currentPiece)) ELSE out,
                     word, Tail(words), size)
            ELSE SplitLongSentence(out, JoinWithSpace(currentPiece, word), Tail(words), size)

\* The loop over the sentences.
RECURSIVE ChunkSentences(_, _, _, _)
ChunkSentences(out, currentChunk, sentences, size) ==
    IF sentences = <<>>
    THEN IF currentChunk # <<>> THEN Append(out, Trim(currentChunk)) ELSE out
    ELSE LET sentence == Head(sentences)
         IN IF Len(sentence) > size
            THEN ChunkSentences(SplitLongSentence(out, <<>>, Split(sentence, FALSE), size),
                                currentChunk, Tail(sentences), size)
            ELSE IF Len(currentChunk) + Len(sentence) > size /\ Len(currentChunk) > 0
            THEN ChunkSentences(Append(out, Trim(currentChunk)), sentence,
                                Tail(sentences), size)
            ELSE ChunkSentences(out, JoinWithSpace(currentChunk, sentence),
                                Tail(sentences), size)

chunkText(t, size) ==
    IF t = <<>> \/ Len(t) <= size THEN <<t>>
    ELSE ChunkSentences(<<>>, <<>>, Split(t, TRUE), size)

ChunkTextCall ==
    /\ chunkPc = "input"
    /\ chunks' = chunkText(inputText, chunkSize)
    /\ chunkPc' = "done"
    /\ UNCHANGED <<inputText, chunkSize, vec1, vec2, similarity, selfSimilarity, simPc,
                   knowledgeBase, ingestVars, chatVars, scoreVars, queryVars, auxVars, uiVars>>

InitChunk ==
    /\ inputText \in Texts
    /\ chunkSize \in 1..MaxChunkSize
    /\ chunks = <<>>
    /\ chunkPc = "input"
    /\ vec1 = <<>>
    /\ vec2 = <<>>
    /\ similarity = 0
    /\ selfSimilarity = 0
    /\ simPc = "idle"
    /\ knowledgeBase = NullKnowledgeBase
    /\ uploads = <<>>
    /\ IngestIdle
    /\ ChatIdle
    /\ ScoreIdle
    /\ UiIdle
    /\ QueryIdle
    /\ AuxIdle

NextChunk == ChunkTextCall

SpecChunk == InitChunk /\ [][NextChunk]_vars

(***************************************************************************)
(* calculateSimilarity. Vectors are sequences of integers; every integer   *)
(* is a number the function accepts.                                       *)
(***************************************************************************)
VectorLength == 2

MaxComponent == 2

Vectors == [1..VectorLength -> (0 - 1)..MaxComponent]

\* let dotProduct = 0; for (i ...) dotProduct += vec1[i] * vec2[i]
RECURSIVE DotProduct(_, _, _)
DotProduct(a, b, n) ==
    IF n = 0 THEN 0 ELSE DotProduct(a, b, n - 1) + a[n] * b[n]

\* The caller is only given vectors of the same length: the function throws
\* for the others.
calculateSimilarity(a, b) == DotProduct(a, b, Len(a))

CalculateSimilarityCall ==
    /\ simPc = "input"
    /\ similarity' = calculateSimilarity(vec1, vec2)
    /\ selfSimilarity' = calculateSimilarity(vec1, vec1)
    /\ simPc' = "done"
    /\ UNCHANGED <<inputText, chunkSize, chunks, chunkPc, vec1, vec2,
                   knowledgeBase, ingestVars, chatVars, scoreVars, queryVars, auxVars, uiVars>>

InitSimilarity ==
    /\ vec1 \in Vectors
    /\ vec2 \in Vectors
    /\ similarity = 0
    /\ selfSimilarity = 0
    /\ simPc = "input"
    /\ inputText = <<>>
    /\ chunkSize = 0
    /\ chunks = <<>>
    /\ chunkPc = "idle"
    /\ knowledgeBase = NullKnowledgeBase
    /\ uploads = <<>>
    /\ IngestIdle
    /\ ChatIdle
    /\ ScoreIdle
    /\ UiIdle
    /\ QueryIdle
    /\ AuxIdle

NextSimilarity == CalculateSimilarityCall

SpecSimilarity == InitSimilarity /\ [][NextSimilarity]_vars

(***************************************************************************)
(* Readiness scoring: calculateDimensionScores and evaluateReadinessLevel. *)
(* An answer is modelled by what the scoring reads of it: its length,      *)
(* whether it contains a positive cue ('yes', 'have', 'implemented'), a    *)
(* negative cue ('no', 'limited', 'not yet'), and whether it starts like a *)
(* chunk of the context. Scores are kept doubled, so that the 0.5 of the   *)
(* context boost, and the thresholds 1.5, 2.5 and 3.5, are integers.       *)
(***************************************************************************)
LongAnswerLength == 100

MediumAnswerLength == 50

ShortAnswerLength == 20

MaxDimensionScore == 5

RecommendationLimit == 3

\* averageScore <= 1.5, <= 2.5, <= 3.5, doubled.
DoubledExploringLimit == 3

DoubledDevelopingLimit == 5

DoubledEstablishedLimit == 7

AnswerProfiles ==
    {[len |-> l, positive |-> p, negative |-> n, aligned |-> a] :
        l \in {0, 20, 30, 50, 51, 100, 101}, p \in BOOLEAN, n \in BOOLEAN, a \in BOOLEAN}

\* The dimensions scored: every answered dimension but 'context'.
ScoredDimensions(answers) == (DOMAIN answers) \ {"context"}

\* The doubled score of one answer without the normalisation.
DoubledScore_NotNormalised(answer) ==
    LET base == IF answer.len > LongAnswerLength THEN 3
                ELSE IF answer.len > MediumAnswerLength THEN 2
                ELSE IF answer.len > ShortAnswerLength THEN 1
                ELSE 0
    IN 2 * base + (IF answer.positive THEN 2 ELSE 0)
                - (IF answer.negative THEN 2 ELSE 0)
                + (IF answer.aligned THEN 1 ELSE 0)

\* The doubled score of one answer, normalised to 0..5.
DoubledScore(answer) ==
    LET base == IF answer.len > LongAnswerLength THEN 3
                ELSE IF answer.len > MediumAnswerLength THEN 2
                ELSE IF answer.len > ShortAnswerLength THEN 1
                ELSE 0
        raw == 2 * base + (IF answer.positive THEN 2 ELSE 0)
                        - (IF answer.negative THEN 2 ELSE 0)
                        + (IF answer.aligned THEN 1 ELSE 0)
    IN Max(0, Min(2 * MaxDimensionScore, raw))

calculateDimensionScores(answers) ==
    [d \in ScoredDimensions(answers) |-> DoubledScore(answers[d])]

RECURSIVE SumOver(_, _)
SumOver(f, S) ==
    IF S = {} THEN 0
    ELSE LET d == CHOOSE x \in S : TRUE IN f[d] + SumOver(f, S \ {d})

\* The average of no scores is 0 / 0 = NaN, which passes none of the three
\* comparisons.
evaluateReadinessLevel(answers) ==
    LET dimensionScores == calculateDimensionScores(answers)
        count == Cardinality(DOMAIN dimensionScores)
        doubledSum == SumOver(dimensionScores, DOMAIN dimensionScores)
    IN IF count = 0 THEN "Advanced"
       ELSE IF doubledSum <= DoubledExploringLimit * count THEN "Exploring"
       ELSE IF doubledSum <= DoubledDevelopingLimit * count THEN "Developing"
       ELSE IF doubledSum <= DoubledEstablishedLimit * count THEN "Established"
       ELSE "Advanced"

\* The answer sets explored: the answered dimensions are a prefix of the
\* catalog or the six scored dimensions; every answer has the profile p, but
\* the answer of one dimension, which has the profile q.
AnsweredSets ==
    {{evaluationDimensions[k].id : k \in 1..n} : n \in 0..NumDimensions}
        \cup {DimensionIds \ {"context"}}

ScoredAnswerSets ==
    {[d \in D |-> IF d = odd THEN q ELSE p] :
        D \in AnsweredSets, odd \in {"data", "experience"},
        p \in AnswerProfiles, q \in AnswerProfiles}

EvaluateReadinessLevelCall ==
    /\ scorePc = "input"
    /\ readinessLevel' = evaluateReadinessLevel(scoredAnswers)
    /\ scoresReturned' = calculateDimensionScores(scoredAnswers)
    /\ scorePc' = "done"
    /\ UNCHANGED <<scoredAnswers, givenAnswers, nextDimension, questionPc, sections, recPc,
                   knowledgeBase, ingestVars, chatVars, chunkVars, uiVars, queryVars, auxVars>>

InitScore ==
    /\ scoredAnswers \in ScoredAnswerSets
    /\ readinessLevel = ""
    /\ scoresReturned = <<>>
    /\ scorePc = "input"
    /\ sections = {}
    /\ recPc = "input"
    /\ QuestionIdle
    /\ knowledgeBase = NullKnowledgeBase
    /\ uploads = <<>>
    /\ IngestIdle
    /\ ChatIdle
    /\ ChunkIdle
    /\ UiIdle
    /\ QueryIdle
    /\ AuxIdle

\* switch (dimension): the cases 'data', 'strategy', 'talent', 'technical'
\* and 'governance'; for any other dimension nothing is pushed.
DimensionsWithCase == {"data", "strategy", "talent", "technical", "governance"}

\* generateBasicRecommendations: the dimensions of dimensionScores with a
\* score <= 3 for which getDimensionRecommendations pushes its section, no
\* preprocessed context being given. Scores are doubled.
SectionsOf(answers) ==
    LET dimensionScores == calculateDimensionScores(answers)
    IN {d \in DOMAIN dimensionScores :
          dimensionScores[d] <= 2 * RecommendationLimit /\ d \in DimensionsWithCase}

\* generateRecommendations falls back to generateBasicRecommendations.
GenerateBasicRecommendationsCall ==
    /\ recPc = "input"
    /\ sections' = SectionsOf(scoredAnswers)
    /\ recPc' = "done"
    /\ UNCHANGED <<scoredAnswers, readinessLevel, scoresReturned, scorePc,
                   givenAnswers, nextDimension, questionPc,
                   knowledgeBase, ingestVars, chatVars, chunkVars, uiVars, queryVars, auxVars>>

NextScore ==
    \/ EvaluateReadinessLevelCall
    \/ GenerateBasicRecommendationsCall

SpecScore == InitScore /\ [][NextScore]_vars

(***************************************************************************)
(* generateNextQuestion as a function of the answers recorded so far.      *)
(***************************************************************************)
\* The answers a caller can have recorded: one per dimension of any subset.
PreviousAnswerSets == {[d \in D |-> "answer"] : D \in SUBSET DimensionIds}

GenerateNextQuestionCall ==
    /\ questionPc = "input"
    /\ nextDimension' = NextDimension(givenAnswers)
    /\ questionPc' = "done"
    /\ UNCHANGED <<givenAnswers, scoredAnswers, readinessLevel, scoresReturned, scorePc,
                   sections, recPc,
                   knowledgeBase, ingestVars, chatVars, chunkVars, uiVars, queryVars, auxVars>>

InitQuestion ==
    /\ givenAnswers \in PreviousAnswerSets
    /\ nextDimension = None
    /\ questionPc = "input"
    /\ scoredAnswers = <<>>
    /\ readinessLevel = ""
    /\ scoresReturned = <<>>
    /\ scorePc = "idle"
    /\ sections = {}
    /\ recPc = "idle"
    /\ knowledgeBase = NullKnowledgeBase
    /\ uploads = <<>>
    /\ IngestIdle
    /\ ChatIdle
    /\ ChunkIdle
    /\ UiIdle
    /\ QueryIdle
    /\ AuxIdle

NextQuestion == GenerateNextQuestionCall

SpecQuestion == InitQuestion /\ [][NextQuestion]_vars

(***************************************************************************)
(* The chat surface: ChatInterface.handleSubmit over useChat.sendMessage.  *)
(* React runs an event handler to its end, the synchronous start of        *)
(* sendMessage included, and renders the state it set before the next      *)
(* event; what sendMessage sets after its await is rendered later.         *)
(***************************************************************************)
MaxOutstanding == 2

MaxMessages == 4

\* What the user can have typed: nothing, a blank, a word.
Inputs == {<<>>, <<" ">>, <<"a">>, <<"a", " ", "b">>}

\* handleSubmit with the test of loading left out.
SubmitAllowed_IgnoresLoading(text, isLoading) == Trim(text) # <<>>

\* input.trim() && !loading
SubmitAllowed(text, isLoading) == Trim(text) # <<>> /\ ~isLoading

\* setMessages(prev => [...prev, message]), for the messages explored.
AddMessage(ms, role) == IF Len(ms) < MaxMessages THEN Append(ms, role) ELSE ms

\* setMessages(prev => prev.filter(m => m.id !== processingMessage.id)): the
\* processing message of the call that returns is the oldest one shown.
RemoveProcessing(ms) ==
    LET at == {k \in DOMAIN ms : ms[k] = "processing"}
    IN IF at = {} THEN ms
       ELSE LET first == CHOOSE k \in at : \A m \in at : k <= m
            IN SubSeq(ms, 1, first - 1) \o SubSeq(ms, first + 1, Len(ms))

\* onChange: setInput(e.target.value)
TypeInput ==
    /\ \E text \in Inputs : input' = text
    /\ UNCHANGED <<loading, renderedLoading, hookApiKey, messages, outstanding, refused>>
    /\ UNCHANGED <<knowledgeBase, ingestVars, chatVars, chunkVars, scoreVars, queryVars, auxVars>>

\* updateApiKey
UpdateApiKey ==
    /\ \E k \in ApiKeys : hookApiKey' = k
    /\ UNCHANGED <<loading, renderedLoading, input, messages, outstanding, refused>>
    /\ UNCHANGED <<knowledgeBase, ingestVars, chatVars, chunkVars, scoreVars, queryVars, auxVars>>

\* A submit event (the button, or Enter in the textarea): handleSubmit, and
\* sendMessage up to its await of getCompletion.
HandleSubmit ==
    /\ outstanding < MaxOutstanding
    /\ IF SubmitAllowed(input, renderedLoading)
       THEN /\ input' = <<>>
            /\ IF hookApiKey.len = 0 \/ ~ApiKeyFormatValid(hookApiKey)
               THEN \* sendMessage throws before the call; finally setLoading(false)
                    /\ messages' = AddMessage(AddMessage(messages, "user"), "error")
                    /\ loading' = FALSE
                    /\ UNCHANGED <<outstanding, refused>>
               ELSE /\ messages' = AddMessage(AddMessage(messages, "user"), "processing")
                    /\ loading' = TRUE
                    /\ outstanding' = outstanding + 1
                    /\ refused' = FALSE
            /\ renderedLoading' = loading'
       ELSE /\ refused' = (Trim(input) # <<>>)
            /\ UNCHANGED <<loading, renderedLoading, input, messages, outstanding>>
    /\ UNCHANGED <<hookApiKey, knowledgeBase, ingestVars, chatVars, chunkVars, scoreVars, queryVars, auxVars>>

\* getCompletion returns to sendMessage (it never throws): the reply replaces
\* the processing message; finally setLoading(false).
CompletionReturns ==
    /\ outstanding > 0
    /\ outstanding' = outstanding - 1
    /\ messages' = AddMessage(RemoveProcessing(messages), "assistant")
    /\ loading' = FALSE
    /\ UNCHANGED <<renderedLoading, input, hookApiKey, refused>>
    /\ UNCHANGED <<knowledgeBase, ingestVars, chatVars, chunkVars, scoreVars, queryVars, auxVars>>

\* React renders ChatInterface with the current state.
Render ==
    /\ renderedLoading # loading
    /\ renderedLoading' = loading
    /\ UNCHANGED <<loading, input, hookApiKey, messages, outstanding, refused>>
    /\ UNCHANGED <<knowledgeBase, ingestVars, chatVars, chunkVars, scoreVars, queryVars, auxVars>>

\* clearChat
ClearChat ==
    /\ messages # <<>>
    /\ messages' = <<>>
    /\ UNCHANGED <<loading, renderedLoading, input, hookApiKey, outstanding, refused>>
    /\ UNCHANGED <<knowledgeBase, ingestVars, chatVars, chunkVars, scoreVars, queryVars, auxVars>>

InitUi ==
    /\ UiIdle
    /\ QueryIdle
    /\ AuxIdle
    /\ knowledgeBase \in {kb \in ChatKnowledgeBases : kb.isLoaded}
    /\ uploads = <<>>
    /\ IngestIdle
    /\ ChatIdle
    /\ ChunkIdle
    /\ ScoreIdle

NextUi ==
    \/ TypeInput
    \/ UpdateApiKey
    \/ HandleSubmit
    \/ CompletionReturns
    \/ Render
    \/ ClearChat

SpecUi == InitUi /\ [][NextUi]_vars

(***************************************************************************)
(* The query getRelevantContext sends to the vector store. A query text is *)
(* a sequence of pieces separated by whitespace; a piece is read by what   *)
(* the two patterns see of it: whether it ends in 'module' or 'week'       *)
(* followed by digits (word with num), ends in the bare word (num ''), is  *)
(* a number, or is any other word.                                         *)
(***************************************************************************)
MaxQueryPieces == 3

QueryPieces == [word : {"module", "week", "other"}, num : {"", "1", "2"}]

Queries == UNION {[1..n -> QueryPieces] : n \in 0..MaxQueryPieces}

\* query.match(/<keyword>\s*(\d+)/i): the digits of the leftmost place
\* where the keyword is followed, after any whitespace, by digits.
RECURSIVE MatchHint(_, _, _)
MatchHint(query, keyword, k) ==
    IF k > Len(query) THEN None
    ELSE IF query[k].word = keyword /\ query[k].num # "" THEN query[k].num
    ELSE IF /\ query[k].word = keyword
            /\ k < Len(query)
            /\ query[k + 1].word = "other"
            /\ query[k + 1].num # ""
    THEN query[k + 1].num
    ELSE MatchHint(query, keyword, k + 1)

IsDefined(entry) == entry.value # None

\* The filter built without dropping the undefined entries.
DefinedEntries_KeepsUndefined(entries) == entries

\* Object.entries(metadata).filter(([_, value]) => value !== undefined)
DefinedEntries(entries) == SelectSeq(entries, IsDefined)

\* .map(([key, value]) => ({ [`metadata.${key}`]: value }))
Condition(entry) == [field |-> <<"metadata", entry.key>>, value |-> entry.value]

\* queryVectors: the filter, { $and: [...] }; metadata is always given.
BuildFilter(metadata) ==
    LET defined == DefinedEntries(metadata)
    IN [and |-> [k \in DOMAIN defined |-> Condition(defined[k])]]

\* getRelevantContext: queryVectors(query, 15, { module, week })
QueryRequest(query) ==
    LET module == MatchHint(query, "module", 1)
        week == MatchHint(query, "week", 1)
    IN [topK |-> TopK,
        filter |-> BuildFilter(<<[key |-> "module", value |-> module],
                                 [key |-> "week", value |-> week]>>)]

GetRelevantContextQuery ==
    /\ queryPc = "input"
    /\ queryRequest' = QueryRequest(queryText)
    /\ queryPc' = "done"
    /\ UNCHANGED <<queryText, knowledgeBase, ingestVars, chatVars, chunkVars, scoreVars, uiVars,
                   auxVars>>

InitQuery ==
    /\ queryText \in Queries
    /\ queryRequest = NoRequest
    /\ queryPc = "input"
    /\ knowledgeBase = NullKnowledgeBase
    /\ uploads = <<>>
    /\ IngestIdle
    /\ ChatIdle
    /\ ChunkIdle
    /\ ScoreIdle
    /\ UiIdle
    /\ AuxIdle

NextQuery == GetRelevantContextQuery

SpecQuery == InitQuery /\ [][NextQuery]_vars

(***************************************************************************)
(* Claims about ingestion.                                                 *)
(***************************************************************************)
\* A step of the main loop: one batch attempt.
MainLoopIteration == phase = "main" /\ mainAttempts' = mainAttempts + 1

\* A step of the retry replay: one retry batch attempt.
RetryLoopIteration == phase = "retry" /\ phase' = "retry"

\* C1: ingestion always terminates, whatever fails. The state of a run grows
\* with every failure (the retry queue, the failure counter), so the loops'
\* termination is stated by their variant: every iteration of the main loop
\* moves the index forward or shrinks the batch size, and every iteration of
\* the retry replay moves its index forward. A loop whose iterations all do so
\* finishes; an iteration that changes neither, under a failure that recurs,
\* is repeated for ever.
C1_EveryIterationProgresses ==
    [][/\ MainLoopIteration => (i' > i \/ currentBatchSize' < currentBatchSize)
       /\ RetryLoopIteration => i' > i]_vars

\* C7: when at most 2 consecutive batches failed in the main pass and no batch
\* of the retry replay failed, the finished run reports every chunk:
\* successfulUpserts = chunks.length.
C7_FullCountAfterReplay ==
    (phase = "done" /\ maxFailedBatches <= 2 /\ retryFailures = 0)
        => successfulUpserts = knowledgeBase.n

\* C7 witness: a finished run in which two consecutive batches failed, were
\* replayed without failure, and every chunk is counted.
C7_Witness ==
    /\ phase = "done"
    /\ maxFailedBatches = 2
    /\ retryFailures = 0
    /\ QueueLength(retryQueue) > 1000
    /\ successfulUpserts = knowledgeBase.n

\* Every batch attempt of the run failed, in the main pass and in the replay.
EveryBatchFailed ==
    /\ mainAttempts > 0
    /\ maxFailedBatches = mainAttempts
    /\ retryFailures * RetryBatchSize >= QueueLength(retryQueue)

\* C8: no batch failure leaves processKnowledgeBase, and with a provider that
\* fails every batch the run ends normally with a success count strictly
\* below the chunk count. While no batch has succeeded yet, every failed
\* attempt of the main loop therefore consumes its batch or shrinks it (else
\* the run never ends), and a run that ended after failures only reports
\* successfulUpserts < chunks.length.
C8_PersistentFailureEndsBelowTotal ==
    /\ [](phase = "done" /\ EveryBatchFailed => successfulUpserts < knowledgeBase.n)
    /\ [][(MainLoopIteration /\ successfulUpserts' = 0)
            => (i' # i \/ currentBatchSize' # currentBatchSize)]_vars

\* C9: a re-ingestion does not merge with the vectors of an earlier run: once
\* the run of a later knowledge base has finished, every record of the store
\* was written by that run.
C9_StoreHoldsOnlyLatestRun ==
    phase = "done" => \A r \in store : r.gen = knowledgeBase.gen

(***************************************************************************)
(* Claims about retrieval and the chat.                                    *)
(***************************************************************************)
\* C2: the string getRelevantContext returns never has more than
\* maxContextLength characters, on the assembling path and on the fallback
\* path.
C2_ContextWithinLimit == relevantContext.len <= maxContextLength

\* An evaluation turn of an interview in progress has returned, and the mode
\* was not toggled since it started.
NextTurnReturned ==
    /\ turn.pc = "idle"
    /\ turn.branch = "next"
    /\ ~turn.toggled

\* C3: a turn of an interview in progress records the user's text in
\* evaluationState.answers under the dimension whose question was asked last,
\* and evaluationState.currentTopicId advances to the dimension of the
\* question the turn returns.
C3_AnswerRecordedAndTopicAdvances ==
    (NextTurnReturned /\ reply.kind = "question")
        => /\ evaluationState.currentTopicId = reply.dim
           /\ turn.answering # None
                => /\ turn.answering \in DOMAIN evaluationState.answers
                   /\ evaluationState.answers[turn.answering] = turn.prompt

\* C4: an interview in which the user answers every emitted question reaches
\* the report: the turn that takes the answer to the NumDimensions-th question
\* returns the final message and leaves inProgress = FALSE.
C4_InterviewReachesReport ==
    (NextTurnReturned /\ answersGiven = NumDimensions)
        => (reply.kind = "report" /\ ~evaluationState.inProgress)

\* C6: a getCompletion call made while the API key is empty, lacks the 'sk-'
\* prefix or is shorter than 40 characters, or while the knowledge base is not
\* marked loaded, calls no external service, in either mode, and returns one
\* of the descriptive messages.
C6_NoExternalCallUnlessConfigured ==
    (/\ turn.prompt # ""
     /\ \/ turn.keyAtCall.len = 0
        \/ ~turn.keyAtCall.sk
        \/ turn.keyAtCall.len < 40
        \/ ~turn.loadedAtCall)
        => /\ turn.pc = "idle"
           /\ calls = {}
           /\ reply \in {Message(MsgNoApiKey), Message(MsgNoKnowledgeBase),
                         Message(MsgBadKeyFormat)}

\* C6 witness: in evaluation mode, with the knowledge base loaded, a call under
\* a prefixed key of 39 characters was answered by the format message and
\* called nothing.
C6_Witness ==
    /\ isEvaluationMode
    /\ ~turn.toggled
    /\ turn.prompt # ""
    /\ turn.keyAtCall = [sk |-> TRUE, len |-> 39]
    /\ turn.loadedAtCall
    /\ reply = Message(MsgBadKeyFormat)
    /\ calls = {}

\* C10: when the query embedding or the vector-store query fails,
\* getRelevantContext does not raise: the call goes on to the completion
\* service, with the raw knowledge-base text as its context.
C10_FallbackIsRawText ==
    turn.contextFailed
        => /\ relevantContext = knowledgeBase.textContent
           /\ "completion" \in calls

\* C10 witness: the vector-store query was made and failed, and the context is
\* the whole text of a knowledge base of 9000 characters.
C10_Witness ==
    /\ turn.contextFailed
    /\ "vectorStore" \in calls
    /\ knowledgeBase.textContent.len = 9000
    /\ relevantContext = knowledgeBase.textContent

(***************************************************************************)
(* Claims about the chunker.                                               *)
(***************************************************************************)
\* C5: the chunks of chunkText, concatenated in output order, reproduce the
\* input text up to whitespace: everything appears once, in its order.
C5_ChunksReproduceText ==
    LET RECURSIVE Concat(_)
        Concat(seqs) == IF seqs = <<>> THEN <<>> ELSE Head(seqs) \o Concat(Tail(seqs))
        NotSpace(c) == ~IsSpace(c)
        StripSpaces(s) == SelectSeq(s, NotSpace)
    IN chunkPc = "done" => StripSpaces(Concat(chunks)) = StripSpaces(inputText)

(***************************************************************************)
(* Claims about the evaluation interview.                                  *)
(***************************************************************************)
\* An evaluation turn has ended by an error thrown out of
\* handleEvaluationMode, and the mode was not toggled since it started.
EvaluationTurnRaised ==
    /\ turn.pc = "idle"
    /\ turn.branch # "none"
    /\ turn.raised # {}
    /\ ~turn.toggled

\* C11: when a step of an evaluation turn raises an error that nothing
\* handles, the evaluation state is reset to Idle (inProgress = false, no
\* answers, no current topic) and the error reaches getCompletion, the caller
\* of the turn, which answers with the message of that error: the turn returns
\* neither a question nor a report, and the interview is abandoned.
C11_ErrorResetsAndPropagates ==
    EvaluationTurnRaised
        => /\ ~evaluationState.inProgress
           /\ DOMAIN evaluationState.answers = {}
           /\ evaluationState.currentTopicId = None
           /\ reply.kind = "message"
           /\ \A err \in turn.raised : reply.text = MapError(err)

\* C11 witness: in evaluation mode a first message arrived in state Idle, the
\* completion service was called and returned an empty question, and the
\* turn ended by the error "Failed to generate initial evaluation question".
C11_Witness ==
    /\ EvaluationTurnRaised
    /\ isEvaluationMode
    /\ turn.branch = "initial"
    /\ "completion" \in calls
    /\ turn.raised = {ErrNoInitialQuestion}
    /\ ~evaluationState.inProgress

\* C12: the terminal message, returned when no dimension remains unanswered,
\* states a readiness level next to the recommendations, and the level is one
\* of Exploring, Developing, Established, Advanced.
C12_ReportStatesReadinessLevel ==
    reply.kind = "report" => reply.level \in readinessLevels

\* C13: a message that arrives in evaluation mode while the state is Idle
\* (inProgress = false) starts an interview: the turn, unless it raises, leaves
\* inProgress = true, records no answer, and returns the question of a
\* dimension of the highest importance in the catalog.
C13_FirstMessageStartsInterview ==
    (turn.pc = "idle" /\ turn.branch = "initial" /\ turn.raised = {} /\ ~turn.toggled)
        => /\ evaluationState.inProgress
           /\ DOMAIN evaluationState.answers = {}
           /\ reply.kind = "question"
           /\ \E d \in DOMAIN evaluationDimensions :
                /\ evaluationDimensions[d].id = reply.dim
                /\ \A e \in DOMAIN evaluationDimensions :
                      evaluationDimensions[e].key <= evaluationDimensions[d].key

\* C13 witness: a first message in state Idle was answered by the question
\* about 'context' that the completion service wrote.
C13_Witness ==
    /\ turn.pc = "idle"
    /\ turn.branch = "initial"
    /\ ~turn.toggled
    /\ isEvaluationMode
    /\ evaluationState.inProgress
    /\ reply = Question("context", "llm")

\* toggleEvaluationMode(true) is called.
EntersEvaluationMode == ToggleEvaluationMode /\ isEvaluationMode'

\* An evaluation turn ends with the terminal report or with an error.
EvaluationTurnEndsInterview ==
    /\ GetCompletion \/ QuestionCompletes \/ RecommendationsComplete
    /\ turn'.pc = "idle"
    /\ turn'.branch # "none"
    /\ reply'.kind = "report" \/ turn'.raised # {}

C15_PositiveAnswersScoreHigh ==
    (/\ scorePc = "done"
     /\ DOMAIN scoredAnswers =
            {"data", "strategy", "talent", "technical", "governance", "experience"}
     /\ \A d \in DOMAIN scoredAnswers :
            /\ scoredAnswers[d].len = 30
            /\ scoredAnswers[d].positive
            /\ ~scoredAnswers[d].negative)
        => readinessLevel \in {"Established", "Advanced"}

(***************************************************************************)
(* More claims about the chunker.                                          *)
(***************************************************************************)
\* C16: every chunk chunkText returns is non-empty, for every input text, the
\* empty string and whitespace-only text included, and every target size.
C16_NoEmptyChunk ==
    chunkPc = "done" => \A k \in DOMAIN chunks : Len(chunks[k]) > 0

(***************************************************************************)
(* Claims about the errors of getCompletion.                               *)
(***************************************************************************)
\* A getCompletion call has ended by an error caught in its catch block.
CallRaised == turn.pc = "idle" /\ turn.raised # {}

\* C17: getCompletion answers a rate-limiting failure (429), an
\* invalid-credential failure (401) and a network failure with three messages
\* that differ from one another, no message serving two categories, and
\* answers every failure of no such category with the generic message.
C17_ErrorsMappedByCategory ==
    CallRaised
        => \A err \in turn.raised :
            /\ ErrorCategory(err) = "other" => reply.text = MsgGeneric
            /\ \A other \in RaisedErrors :
                  ErrorCategory(other) # ErrorCategory(err) => MapError(other) # reply.text

\* C18: getCompletion never throws and never returns the text of a provider
\* error: every call returns, a call that ended by an error returns one of
\* the fixed user-facing messages, and every other reply is generated or
\* fallback content (a question, the report, an answer).
C18_FailuresYieldFixedMessages ==
    (turn.pc = "idle" /\ turn.prompt # "")
        => /\ reply.kind \in {"message", "question", "report", "answer"}
           /\ reply.kind = "message"
                => reply.text \in {MsgNoApiKey, MsgNoKnowledgeBase, MsgBadKeyFormat,
                                   MsgKeyIssue, MsgRateLimit, MsgInvalidKey, MsgNetwork,
                                   MsgGeneric}
           /\ turn.raised # {} => reply.kind = "message"
           /\ reply.kind # "message" => reply.text \in {"llm", "fallback", "basic"}

\* C18 witness: the completion service was called and failed with a 429, and
\* the call returned the rate-limit message.
C18_Witness ==
    /\ CallRaised
    /\ "completion" \in calls
    /\ \E err \in turn.raised : err.c429
    /\ reply = Message(MsgRateLimit)

(***************************************************************************)
(* Claims about the chat surface.                                          *)
(***************************************************************************)
\* C19: at most one getCompletion call is in flight: while a request started
\* by sendMessage is outstanding, loading is true and no further submission
\* reaches openAIService.getCompletion.
C19_OneRequestInFlight ==
    /\ outstanding <= 1
    /\ outstanding = 1 => loading

\* C19 witness: while a call is outstanding the user typed a message and
\* submitted it, and handleSubmit refused it.
C19_Witness ==
    /\ outstanding = 1
    /\ loading
    /\ Trim(input) # <<>>
    /\ refused


\* A main-loop batch has just failed with an error no later attempt can cure.
MainBatchFailedPermanently == MainBatch /\ lastError' \in PermanentErrors

\* C20: a batch of the main pass that fails because the API key is not set,
\* the vector store is not initialized, or the provider reports an invalid
\* credential or a malformed request is not put on the retry queue (whose
\* whole content the replay re-attempts) and the main pass does not stay on
\* it to attempt it again.
C20_PermanentErrorsNotRetried ==
    [][MainBatchFailedPermanently => (retryQueue' = retryQueue /\ i' > i)]_vars


\* C21: between turns every key of evaluationState.answers is the id of a
\* known dimension, and currentTopicId, when set, is the id of a dimension
\* that has no recorded answer yet.
C21_AnswersAndTopicWellFormed ==
    turn.pc = "idle"
        => /\ DOMAIN evaluationState.answers \subseteq DimensionIds
           /\ evaluationState.currentTopicId # None
                => evaluationState.currentTopicId
                     \in DimensionIds \ DOMAIN evaluationState.answers

\* Between turns of an interview in which the user has answered a question
\* and the next question was the fallback one.
C21_Witness ==
    /\ turn.pc = "idle"
    /\ evaluationState.inProgress
    /\ answersGiven >= 1
    /\ reply.kind = "question"
    /\ reply.text = "fallback"


\* C22: for vectors of equal length the score of a vector with itself is at
\* least its score with any other vector.
C22_SelfSimilarityIsMaximal ==
    simPc = "done" => selfSimilarity >= similarity


\* C23: in the main pass a failure that is the first or second consecutive
\* one advances the index past the failed batch and leaves the batch size
\* alone; a third or later consecutive failure halves the batch size, not
\* below 50, and keeps the start index; a successful batch sets the
\* consecutive-failure counter to 0.
C23_FailureHandlingOfMainPass ==
    [][MainBatch =>
        LET batchEndIndex == IF i + currentBatchSize < knowledgeBase.n
                             THEN i + currentBatchSize ELSE knowledgeBase.n
            halved == IF currentBatchSize \div 2 < 50 THEN 50 ELSE currentBatchSize \div 2
        IN IF lastError' = "none"
           THEN failedBatches' = 0
           ELSE /\ failedBatches' = failedBatches + 1
                /\ failedBatches' <= 2 =>
                      (i' = batchEndIndex /\ currentBatchSize' = currentBatchSize)
                /\ failedBatches' >= 3 =>
                      (i' = i /\ currentBatchSize' = halved)]_vars

\* A run in which a third consecutive failure has halved the batch size and
\* a later batch has succeeded and reset the counter.
C23_Witness ==
    /\ phase = "main"
    /\ maxFailedBatches >= 3
    /\ currentBatchSize < 1000
    /\ failedBatches = 0
    /\ successfulUpserts > 0


\* C24: during an ingestion run currentBatchSize is between 50 and 1000
\* inclusive; no step of the run increases it, and a successful batch leaves
\* it as it is.
C24_BatchSizeBoundedAndNonIncreasing ==
    /\ [](currentBatchSize >= 50 /\ currentBatchSize <= 1000)
    /\ [][knowledgeBase' = knowledgeBase => currentBatchSize' <= currentBatchSize]_vars
    /\ [][(MainBatch /\ lastError' = "none") => currentBatchSize' = currentBatchSize]_vars

\* A run whose batch size went down to the floor, and in which a batch has
\* succeeded since.
C24_Witness ==
    /\ phase \in {"main", "retry", "done"}
    /\ currentBatchSize = 50
    /\ failedBatches = 0
    /\ successfulUpserts > 0


\* C25: the replay starts at the head of the retry queue and attempts its
\* entries in consecutive batches of at most 50, each entry once: a retry
\* batch, failed or not, leaves the queue as it is (a failing one is not
\* queued again) and moves the replay on by 50, a successful one counts the
\* entries it held, and the replay only ends behind the last entry.
C25_ReplayAttemptsEveryEntryOnce ==
    /\ [][(phase = "main" /\ phase' = "retry") => i' = 0]_vars
    /\ [](phase = "retry" => i % 50 = 0)
    /\ [][RetryBatch =>
            LET rest == QueueLength(retryQueue) - i
                held == IF rest < 50 THEN rest ELSE 50
            IN /\ retryQueue' = retryQueue
               /\ phase' = "retry"
               /\ i' = i + 50
               /\ successfulUpserts' =
                     IF lastError' = "none" THEN successfulUpserts + held
                     ELSE successfulUpserts]_vars
    /\ [][(phase = "retry" /\ phase' = "done") => i >= QueueLength(retryQueue)]_vars

\* A replay in which a batch was attempted, and upserted, after an earlier
\* retry batch had failed.
C25_Witness ==
    /\ phase = "retry"
    /\ retryFailures >= 1
    /\ i >= 100
    /\ lastError = "none"


\* C26: generateNextQuestion asks about a dimension without a recorded
\* answer, of the greatest importance among those and the first such in
\* catalog order, and returns null exactly when every dimension has an
\* answer.
C26_NextDimensionByImportance ==
    questionPc = "done" =>
        LET Unanswered(k) == evaluationDimensions[k].id \notin DOMAIN givenAnswers
            open == {k \in DOMAIN evaluationDimensions : Unanswered(k)}
        IN /\ nextDimension = None <=> open = {}
           /\ nextDimension # None =>
                \E k \in open :
                    /\ evaluationDimensions[k].id = nextDimension
                    /\ \A j \in open :
                          \/ evaluationDimensions[j].key < evaluationDimensions[k].key
                          \/ (evaluationDimensions[j].key = evaluationDimensions[k].key /\ k <= j)

\* The call with the three most important dimensions answered and two of
\* the next rank open: the earlier of the two in the catalog is chosen.
C26_Witness ==
    /\ questionPc = "done"
    /\ DOMAIN givenAnswers = {"context", "data", "strategy", "talent", "experience"}
    /\ nextDimension = "technical"


\* C27 as stated: every answered dimension but 'context' gets a score, which
\* is the base for its length (0, 1, 2, 3 for at most 20, more than 20, 50,
\* 100 characters) plus 1 for a positive cue, minus 1 for a negative cue,
\* clamped to 0..5. Scores are doubled here.
C27_ScoreIsBasePlusCues ==
    scorePc = "done" =>
        /\ DOMAIN scoresReturned = (DOMAIN scoredAnswers) \ {"context"}
        /\ \A d \in DOMAIN scoresReturned :
             LET a == scoredAnswers[d]
                 base == IF a.len > 100 THEN 3 ELSE IF a.len > 50 THEN 2
                         ELSE IF a.len > 20 THEN 1 ELSE 0
                 raw == base + (IF a.positive THEN 1 ELSE 0) - (IF a.negative THEN 1 ELSE 0)
                 clamped == IF raw < 0 THEN 0 ELSE IF raw > 5 THEN 5 ELSE raw
             IN scoresReturned[d] = 2 * clamped

\* C27, amended: the score is the base for the length plus 1 for a positive
\* cue, minus 1 for a negative cue, plus 0.5 when the answer contains the
\* start of a relevant context chunk, clamped to 0..5; 'context' gets no
\* score. Scores are doubled here.
C27_ScoreIsBasePlusCuesPlusAlignment ==
    scorePc = "done" =>
        /\ DOMAIN scoresReturned = (DOMAIN scoredAnswers) \ {"context"}
        /\ \A d \in DOMAIN scoresReturned :
             LET a == scoredAnswers[d]
                 base == IF a.len > 100 THEN 3 ELSE IF a.len > 50 THEN 2
                         ELSE IF a.len > 20 THEN 1 ELSE 0
                 doubledRaw == 2 * base + (IF a.positive THEN 2 ELSE 0)
                                        - (IF a.negative THEN 2 ELSE 0)
                                        + (IF a.aligned THEN 1 ELSE 0)
                 clamped == IF doubledRaw < 0 THEN 0
                            ELSE IF doubledRaw > 10 THEN 10 ELSE doubledRaw
             IN /\ scoresReturned[d] = clamped
                /\ scoresReturned[d] >= 0
                /\ scoresReturned[d] <= 10

\* Scores returned for answers that include 'context', an answer whose raw
\* score is below the range, and an aligned answer of exactly 100 characters.
C27_Witness ==
    /\ scorePc = "done"
    /\ "context" \in DOMAIN scoredAnswers
    /\ \E d \in DOMAIN scoresReturned :
          scoredAnswers[d].len = 0 /\ scoredAnswers[d].negative /\ ~scoredAnswers[d].positive
    /\ \E d \in DOMAIN scoresReturned :
          scoredAnswers[d].len = 100 /\ scoredAnswers[d].aligned /\ scoresReturned[d] = 5


\* C28: the level returned is the one whose range holds the average of the
\* dimension scores: Exploring for an average of at most 1.5, Developing
\* for at most 2.5, Established for at most 3.5, Advanced for an average
\* above 3.5. Scores are doubled here, and the average is compared after
\* multiplying by the number of scores, which has to be positive for an
\* average to exist.
C28_LevelFollowsAverageCutoffs ==
    scorePc = "done" =>
        LET count == Cardinality(DOMAIN scoresReturned)
            doubledSum == SumOver(scoresReturned, DOMAIN scoresReturned)
        IN /\ count > 0
           /\ readinessLevel = "Exploring" <=> doubledSum <= 3 * count
           /\ readinessLevel = "Developing" <=>
                 (doubledSum > 3 * count /\ doubledSum <= 5 * count)
           /\ readinessLevel = "Established" <=>
                 (doubledSum > 5 * count /\ doubledSum <= 7 * count)
           /\ readinessLevel = "Advanced" <=> doubledSum > 7 * count


\* C29: every chunk chunkText returns has at most chunkSize characters,
\* unless it is a single word, a chunk without whitespace, that is longer
\* than chunkSize on its own.
C29_ChunksWithinTargetSize ==
    chunkPc = "done" =>
        \A k \in DOMAIN chunks :
            \/ Len(chunks[k]) <= chunkSize
            \/ \A m \in DOMAIN chunks[k] : ~IsSpace(chunks[k][m])


\* C30: the query getRelevantContext sends to the vector store asks for the
\* 15 best matches under an equality filter that has one condition for the
\* module when the text names one, one for the week when the text names one,
\* each with the number the text gives first, and no other condition: none
\* at all when the text names neither.
C30_FilterHoldsExactlyTheHints ==
    queryPc = "done" =>
        LET Names(k, keyword) ==
                /\ queryText[k].word = keyword
                /\ \/ queryText[k].num # ""
                   \/ /\ k < Len(queryText)
                      /\ queryText[k + 1].word = "other"
                      /\ queryText[k + 1].num # ""
            NumberAt(k) ==
                IF queryText[k].num # "" THEN queryText[k].num ELSE queryText[k + 1].num
            Hints(keyword) == {k \in DOMAIN queryText : Names(k, keyword)}
            First(keyword) == CHOOSE k \in Hints(keyword) : \A m \in Hints(keyword) : k <= m
            conditions == queryRequest.filter.and
            For(keyword) == {c \in DOMAIN conditions : conditions[c].field[2] = keyword}
        IN /\ queryRequest.topK = 15
           /\ \A c \in DOMAIN conditions : conditions[c].field[2] \in {"module", "week"}
           /\ \A keyword \in {"module", "week"} :
                IF Hints(keyword) = {} THEN For(keyword) = {}
                ELSE /\ Cardinality(For(keyword)) = 1
                     /\ \A c \in For(keyword) :
                           conditions[c].value = NumberAt(First(keyword))

\* The query built for the text 'module week 2', which names a week and,
\* the word 'module' not being followed by a number, no module.
C30_Witness ==
    /\ queryPc = "done"
    /\ queryText = <<[word |-> "module", num |-> ""], [word |-> "week", num |-> ""],
                     [word |-> "other", num |-> "2"]>>
    /\ Len(queryRequest.filter.and) = 1


\* C33: at every point of an ingestion run the success counter is at most
\* the number of chunks of the knowledge base.
C33_SuccessCountAtMostChunkCount ==
    successfulUpserts <= knowledgeBase.n


\* C34: a batch that ends in an error, in the main pass or in the replay,
\* has persisted none of its vectors: the step of a failed batch leaves the
\* vector store as it was.
C34_FailedBatchPersistsNothing ==
    [][((MainBatch \/ RetryBatch) /\ lastError' # "none") => store' = store]_vars


\* C35: once the main pass has ended, every chunk of the knowledge base is
\* in the store under its doc id, written by this run, or is in the retry
\* queue. The first chunk that is in neither would be chunk 0 or the chunk
\* right behind a stored or queued range, so these are the chunks looked at.
C35_NoChunkSkippedByMainPass ==
    ((phase = "main" /\ i >= knowledgeBase.n) \/ phase \in {"retry", "done"})
        => LET written == {r \in store : r.kind = "doc" /\ r.gen = knowledgeBase.gen}
               queued == {retryQueue[q] : q \in DOMAIN retryQueue}
               Held(c) == \E r \in written \cup queued : r.lo <= c /\ c < r.hi
               starts == {0} \cup {r.hi : r \in written \cup queued}
           IN \A c \in starts : c < knowledgeBase.n => Held(c)

\* The main pass of 2001 chunks has ended with one batch upserted and the
\* others queued.
C35_Witness ==
    /\ phase = "retry"
    /\ i = 0
    /\ knowledgeBase.n = 2001
    /\ successfulUpserts = 1000
    /\ QueueLength(retryQueue) = 1001


\* C37: for answers in which no dimension is scored, none at all or the
\* 'context' answer only, evaluateReadinessLevel does not return Advanced.
C37_NoScoresNotAdvanced ==
    (scorePc = "done" /\ (DOMAIN scoredAnswers) \subseteq {"context"})
        => readinessLevel # "Advanced"


\* C38: when evaluation mode was toggled while an evaluation turn was in
\* flight, the later steps of that turn, its completion or its failure,
\* leave the evaluation state as the toggle has set it.
C38_StaleTurnLeavesToggledState ==
    [][((QuestionCompletes \/ RecommendationsComplete) /\ turn.toggled)
         => evaluationState' = evaluationState]_vars



\* ---------------------------------------------------------------------
\* processCSVData (services/openai.ts)
\* ---------------------------------------------------------------------

MaxColumns == 2

MaxRows == 2

\* A column header: whether its lower-cased name includes 'module' or
\* 'week', and whether the name is written in lower case throughout.
Headers == [kind : {"module", "week", "other"}, lower : BOOLEAN]

\* h.toLowerCase()
ToLowerCase(h) == [h EXCEPT !.lower = TRUE]

\* A cell is empty or holds text; a property the row does not have reads
\* as undefined.
CellValues == {"", "1"}

Undefined == "<undefined>"

\* Object.keys(csvData[0]): distinct property names, in insertion order.
HeaderLists ==
    {hs \in UNION {[1..len -> Headers] : len \in 1..MaxColumns} :
        \A a, b \in DOMAIN hs : a # b => hs[a] # hs[b]}

\* The parsed files: every row has the columns of the first one.
CsvInputs ==
    {[headers |-> <<>>, rows |-> <<>>]} \cup
    UNION {[headers : {hs}, rows : UNION {[1..cnt -> [DOMAIN hs -> CellValues]] : cnt \in 1..MaxRows}] :
             hs \in HeaderLists}

\* headers.find(h => h.toLowerCase().includes(keyword))?.toLowerCase() || ''
\* as the set holding the key, empty when the key is ''.
FindKey(headers, keyword) ==
    LET found == {j \in DOMAIN headers : ToLowerCase(headers[j]).kind = keyword}
    IN IF found = {} THEN {}
       ELSE {ToLowerCase(headers[CHOOSE j \in found : \A other \in found : j <= other])}

\* row[key]
RowValue(headers, row, key) ==
    LET cols == {j \in DOMAIN headers : headers[j] \in key}
    IN IF cols = {} THEN Undefined ELSE row[CHOOSE j \in cols : TRUE]

\* !value
Falsy(value) == value \in {"", Undefined}

GeneralContent == [general |-> TRUE, module |-> Undefined, week |-> Undefined]

\* `Module ${module} Week ${week}`
ModuleWeek(module, week) == [general |-> FALSE, module |-> module, week |-> week]

\* The lines `${header}: ${value}` of an entry, as the columns they come from.
RECURSIVE EntryLines(_, _)
EntryLines(row, upTo) ==
    IF upTo = 0 THEN <<>>
    ELSE LET before == EntryLines(row, upTo - 1)
         IN IF Falsy(row[upTo]) THEN before ELSE Append(before, upTo)

processCSVData(data) ==
    IF Len(data.rows) = 0 THEN <<>>
    ELSE LET moduleKey == FindKey(data.headers, "module")
             weekKey == FindKey(data.headers, "week")
         IN [r \in DOMAIN data.rows |->
               LET module == RowValue(data.headers, data.rows[r], moduleKey)
                   week == RowValue(data.headers, data.rows[r], weekKey)
                   groupKey == IF ~Falsy(module) /\ ~Falsy(week)
                                 THEN ModuleWeek(module, week)
                                 ELSE GeneralContent
               IN [lines |-> EntryLines(data.rows[r], Len(data.headers)),
                   module |-> module, week |-> week, groupKey |-> groupKey]]

ProcessCSVDataCall ==
    /\ csvPc = "input"
    /\ processed' = processCSVData(csvData)
    /\ csvPc' = "done"
    /\ UNCHANGED <<runs, csvData, knowledgeBase, ingestVars, chatVars, chunkVars, scoreVars,
                   queryVars, uiVars>>

InitCsv ==
    /\ csvData \in CsvInputs
    /\ processed = <<>>
    /\ csvPc = "input"
    /\ runs = <<>>
    /\ knowledgeBase = NullKnowledgeBase
    /\ uploads = <<>>
    /\ IngestIdle
    /\ ChatIdle
    /\ ChunkIdle
    /\ ScoreIdle
    /\ UiIdle
    /\ QueryIdle

NextCsv == ProcessCSVDataCall

SpecCsv == InitCsv /\ [][NextCsv]_vars

\* The first column whose name includes the keyword, whatever its case.
ColumnOf(headers, keyword) ==
    LET found == {j \in DOMAIN headers : headers[j].kind = keyword}
    IN IF found = {} THEN 0 ELSE CHOOSE j \in found : \A other \in found : j <= other

\* C31: processCSVData returns one entry per row; the entry's group is
\* 'Module <m> Week <w>' when the headers hold a module column and a week
\* column, whatever their case, and the row has a value in both, and is
\* 'General Content' otherwise.
C31_OneEntryPerRowGroupedByModuleWeek ==
    csvPc = "done" =>
        /\ Len(processed) = Len(csvData.rows)
        /\ \A r \in DOMAIN csvData.rows :
              LET moduleColumn == ColumnOf(csvData.headers, "module")
                  weekColumn == ColumnOf(csvData.headers, "week")
                  row == csvData.rows[r]
              IN processed[r].groupKey =
                   IF moduleColumn # 0 /\ weekColumn # 0
                        /\ row[moduleColumn] # "" /\ row[weekColumn] # ""
                     THEN ModuleWeek(row[moduleColumn], row[weekColumn])
                     ELSE GeneralContent


\* ---------------------------------------------------------------------
\* setKnowledgeBase called while an earlier processKnowledgeBase is still
\* awaiting (hooks/useChat updateKnowledgeBase does not await it and has
\* no guard). Each call keeps its own chunks and loop variables.
\* ---------------------------------------------------------------------

\* The upload sequences explored with overlapping runs.
OverlapPlans == {<<120, 120>>, <<120, 51>>, <<51, 120>>}

\* The locals of one processKnowledgeBase call at its start.
NewRun(gen, n) ==
    [gen |-> gen, n |-> n, phase |-> "main", idx |-> 0, size |-> InitialBatchSize,
     successful |-> 0, failed |-> 0, queue |-> <<>>]

\* setKnowledgeBase: this.knowledgeBase is replaced and a further
\* processKnowledgeBase starts, whatever the earlier calls are doing.
SetKnowledgeBaseOverlapping ==
    /\ uploads # <<>>
    /\ knowledgeBase' = CsvKnowledgeBase(knowledgeBase.gen + 1, Head(uploads))
    /\ uploads' = Tail(uploads)
    /\ runs' = Append(runs, NewRun(knowledgeBase.gen + 1, Head(uploads)))
    /\ UNCHANGED <<phase, i, currentBatchSize, successfulUpserts, failedBatches, retryQueue,
                   store, mainAttempts, retryFailures, maxFailedBatches, lastError,
                   csvData, processed, csvPc, chatVars, chunkVars, scoreVars, queryVars, uiVars>>

\* One iteration of the main loop of the r-th call.
OverlapMainBatch(r) ==
    /\ runs[r].phase = "main"
    /\ runs[r].idx < runs[r].n
    /\ LET run == runs[r]
           batchEndIndex == Min(run.idx + run.size, run.n)
           len == batchEndIndex - run.idx
       IN \E o \in BatchOutcomes(len) :
            /\ store' = UpsertVectors(store, "doc", run.idx, len, run.gen, o.failAt)
            /\ lastError' = o.error
            /\ runs' = [runs EXCEPT ![r] =
                  IF o.ok
                    THEN [run EXCEPT !.successful = @ + len, !.failed = 0, !.idx = batchEndIndex]
                    ELSE [run EXCEPT !.failed = @ + 1,
                                     !.queue = Append(@, [lo |-> run.idx, hi |-> batchEndIndex]),
                                     !.size = BatchSizeAfterFailure(@, run.failed + 1),
                                     !.idx = IndexAfterFailure(@, batchEndIndex, run.failed + 1)]]
    /\ UNCHANGED <<uploads, knowledgeBase, phase, i, currentBatchSize, successfulUpserts,
                   failedBatches, retryQueue, mainAttempts, retryFailures, maxFailedBatches,
                   csvData, processed, csvPc, chatVars, chunkVars, scoreVars, queryVars, uiVars>>

\* The main loop of the r-th call ends.
OverlapMainExit(r) ==
    /\ runs[r].phase = "main"
    /\ runs[r].idx >= runs[r].n
    /\ runs' = [runs EXCEPT ![r].phase = IF QueueLength(runs[r].queue) > 0 THEN "retry" ELSE "done",
                            ![r].idx = 0]
    /\ UNCHANGED <<uploads, knowledgeBase, ingestVars,
                   csvData, processed, csvPc, chatVars, chunkVars, scoreVars, queryVars, uiVars>>

\* One iteration of the retry replay of the r-th call.
OverlapRetryBatch(r) ==
    /\ runs[r].phase = "retry"
    /\ runs[r].idx < QueueLength(runs[r].queue)
    /\ LET run == runs[r]
           len == Min(RetryBatchSize, QueueLength(run.queue) - run.idx)
       IN \E o \in BatchOutcomes(len) :
            /\ store' = UpsertVectors(store, "retry", run.idx, len, run.gen, o.failAt)
            /\ lastError' = o.error
            /\ runs' = [runs EXCEPT ![r] =
                  [run EXCEPT !.successful = IF o.ok THEN @ + len ELSE @,
                              !.idx = RetryIndexAfter(@, o.ok, QueueLength(run.queue))]]
    /\ UNCHANGED <<uploads, knowledgeBase, phase, i, currentBatchSize, successfulUpserts,
                   failedBatches, retryQueue, mainAttempts, retryFailures, maxFailedBatches,
                   csvData, processed, csvPc, chatVars, chunkVars, scoreVars, queryVars, uiVars>>

\* The retry replay of the r-th call ends.
OverlapRetryExit(r) ==
    /\ runs[r].phase = "retry"
    /\ runs[r].idx >= QueueLength(runs[r].queue)
    /\ runs' = [runs EXCEPT ![r].phase = "done"]
    /\ UNCHANGED <<uploads, knowledgeBase, ingestVars,
                   csvData, processed, csvPc, chatVars, chunkVars, scoreVars, queryVars, uiVars>>

InitOverlap ==
    /\ uploads \in OverlapPlans
    /\ knowledgeBase = NullKnowledgeBase
    /\ IngestIdle
    /\ ChatIdle
    /\ ChunkIdle
    /\ ScoreIdle
    /\ UiIdle
    /\ QueryIdle
    /\ AuxIdle

NextOverlap ==
    \/ SetKnowledgeBaseOverlapping
    \/ \E r \in DOMAIN runs : OverlapMainBatch(r)
    \/ \E r \in DOMAIN runs : OverlapMainExit(r)
    \/ \E r \in DOMAIN runs : OverlapRetryBatch(r)
    \/ \E r \in DOMAIN runs : OverlapRetryExit(r)

SpecOverlap == InitOverlap /\ [][NextOverlap]_vars

\* C36: when setKnowledgeBase was called again while an earlier run was in
\* progress and every run has finished, the doc-<i> records the latest run
\* wrote still hold the latest knowledge base: with no batch of the latest
\* run failed, no doc-<i> of its chunks holds a chunk of an older upload.
C36_OlderRunNeverOverwritesNewer ==
    (/\ uploads = <<>>
     /\ runs # <<>>
     /\ \A r \in DOMAIN runs : runs[r].phase = "done"
     /\ runs[Len(runs)].queue = <<>>)
        => \A rec \in store :
              (rec.kind = "doc" /\ rec.lo < knowledgeBase.n) => rec.gen = knowledgeBase.gen

\* C32: the fallback recommendation block has a dimension-specific section
\* for every scored dimension whose score is at most 3 and for no dimension
\* whose score is above 3. Scores are doubled here.
C32_SectionForEveryLowScore ==
    recPc = "done" =>
        LET scores == calculateDimensionScores(scoredAnswers)
        IN sections = {d \in DOMAIN scores : scores[d] <= 6}

====
